---------------------------- MODULE Spec2Model ----------------------------
(***************************************************************************)
(* Client-side synchronization layer of the Willware attendance app.       *)
(*                                                                         *)
(* Spec       : the dashboard screen (app/(tabs)/index.tsx), its preloader *)
(*              hook (hooks/useDashboardPreloader.ts), the API client      *)
(*              (services/apiClient.ts), the retry wrapper                 *)
(*              (utils/errorHandling withRetry) and the TTL cache          *)
(*              (services/cacheManager.ts), run as interleaved async tasks *)
(*              of one event loop against a remote attendance service.     *)
(* SpecInval  : the same screen with one invocation at a time, and the     *)
(*              profile read of the API client filling its cache entry.    *)
(* SpecDerive : the derivation of today's status from a timelog, applied   *)
(*              to every timelog and date of a bounded input set.          *)
(* SpecCache  : the TTL cache operations over the durable store.           *)
(* SpecFull   : the TTL cache over a store that already holds maxSize      *)
(*              entries and the keys of other components, scanned in       *)
(*              either key order.                                          *)
(* SpecFail   : the TTL cache when a store call throws or a stored text    *)
(*              is not a serialized cache item.                            *)
(* SpecQueue  : the offline queue (services/offlineManager.ts) in one app  *)
(*              session, restarted only between passes.                    *)
(* SpecReload : the offline queue reloaded from the store at any moment.   *)
(* SpecHook   : the offline queue driven by useOfflineManager: mount,     *)
(*              connectivity events, app restarts.                        *)
(* SpecOffline: the screen of SpecInval on a device that loses and        *)
(*              regains its connection.                                    *)
(* SpecAuth   : the AuthProvider (contexts/AuthContext) over the stored    *)
(*              session: launch, background verification, login, logout.   *)
(* SpecFast   : getFastAuthState (utils/authOptimizer.ts) applied to a     *)
(*              bounded set of stored sessions and read failures.         *)
(* SpecAuthLive: SpecAuth with weak fairness of initializeAuthFast.        *)
(* SpecAuthApi : SpecAuth with API requests answered 401.                  *)
(* SpecAuthRace: SpecAuth with the user acting during the verification.    *)
(* SpecNet    : one ApiClient.request / verification request with its      *)
(*              attempts and its abort timer.                              *)
(* SpecRace   : two cache calls interleaved at their storage operations.   *)
(* SpecCompute: getOrSet with a computeFn that resolves or rejects.        *)
(* SpecClear  : the offline queue with clearQueue called at any moment.    *)
(*                                                                         *)
(* Time is counted in minutes (the cache TTLs are 1, 2 and 5 minutes, the  *)
(* identity cache is valid for 1440).                                      *)
(***************************************************************************)
EXTENDS Naturals, Integers, Sequences, FiniteSets, TLC

VARIABLES
    today,            \* the local calendar day (index; FormatDate gives its string)
    now,              \* Date.now(), in minutes
    serverLog,        \* the remote service's timelog of the employee
    hasToken,         \* a credential token is in the secure store
    store,            \* the durable key-value store (cache_<key> items)
    employeeDetails,  \* dashboardData.employeeDetails: None or Some(timelog)
    isLoading,        \* dashboardData.isLoading (preloaderLoading)
    error,            \* dashboardData.error # null
    overlay,          \* loadingState.isLoading of useLoadingState
    toast,            \* the last toast shown
    memoRecord,       \* todayAttendanceRecord, as memoized by useMemo
    memoStale,        \* employeeDetails.timelog changed since the memo was computed
    frame,            \* the last committed render of the dashboard screen
    mounted,          \* the screen's mount effect has run
    tasks,            \* the async invocations in flight
    cacheOut,         \* the last cache call and what it returned (SpecRace: the calls in flight)
    queue,            \* OfflineManager.queue, the in-memory list
    isProcessing,     \* OfflineManager.isProcessing
    pass,             \* the processQueue invocation that is running, if any
    execLog,          \* what the queue has done: executor calls, last operation
    hook,             \* useOfflineManager / useNetworkStatus of the running app
    auth,             \* the stored session, authState and the auth flows in flight
    net               \* SpecNet: one request of this layer, its attempts and its timer

vars == <<today, now, serverLog, hasToken, store, employeeDetails, isLoading,
          error, overlay, toast, memoRecord, memoStale, frame,
          mounted, tasks, cacheOut, queue, isProcessing, pass, execLog, hook,
          auth, net>>

\* the variables of the offline queue, and those of the screen and the cache
queueVars == <<queue, isProcessing, pass, execLog, hook>>
appVars == <<today, now, serverLog, hasToken, employeeDetails, isLoading,
             error, overlay, toast, memoRecord, memoStale, frame,
             mounted, tasks, cacheOut, auth, net>>

-----------------------------------------------------------------------------
(* Bounds of the model *)

MaxDay == 2
MaxTime == 2
MaxTasks == 2
MaxLog == 2
MaxItems == 2
MaxReloads == 1
MaxLaunches == 2
MaxElapse == 2

(* Program constants *)

RetryAttempts == 3
MaxRetries == 2
ViewTTL == 1
PreloadTTL == 2
DefaultTTL == 5
DetailsTTL == 5
PayslipTTL == 15
QueueMaxRetries == 3
MaxSize == 50
CacheValidity == 1440
ApiTimeout == 30
VerifyTimeout == 5

\* An optional value (null / undefined or a value) is a sequence of length 0 or 1.
None == << >>
Some(x) == <<x>>

Days == 1..MaxDay
TaskIds == 1..MaxTasks

-----------------------------------------------------------------------------
(* Dates and day records *)

\* moment().format('DD/MM/YYYY'): day 1 is 28/10/2025, the date of the
\* documented example; October has 31 days.
FormatDate(d) ==
    LET n == 27 + d
    IN  IF n <= 31 THEN <<n, 10, 2025>> ELSE <<n - 31, 11, 2025>>

\* A TimeLog item. An absent or empty field is "" (falsy in the code).
DayRecord(dateStr, cin, cout, hours) ==
    [date |-> dateStr, checkin |-> cin, checkout |-> cout, totalhours |-> hours]

Truthy(field) == field # ""

\* timelog.find(log => log.date === dateStr): the first match, or undefined
FindByDate(timelog, dateStr) ==
    LET hits == SelectSeq(timelog, LAMBDA r : r.date = dateStr)
    IN  IF hits = << >> THEN None ELSE Some(Head(hits))

-----------------------------------------------------------------------------
(* The remote attendance service: POST /checkin, POST /checkout, GET /view *)

\* The service accepts a check-in when the day has no record and a check-out
\* when the day's record has a check-in and no check-out.
ServerAccepts(log, action, d) ==
    LET r == FindByDate(log, FormatDate(d))
    IN  IF action = "checkin"
        THEN r = None
        ELSE r # None /\ Truthy(r[1].checkin) /\ ~Truthy(r[1].checkout)

\* Timestamps and total hours are stamped by the service ("srv").
ServerApply(log, action, d) ==
    IF action = "checkin"
    THEN Append(log, DayRecord(FormatDate(d), "srv", "", ""))
    ELSE [i \in 1..Len(log) |->
            IF log[i].date = FormatDate(d)
            THEN DayRecord(log[i].date, log[i].checkin, "srv", "srv")
            ELSE log[i]]

\* What one network attempt can end with: a 2xx response, a 2xx response that
\* is lost on the way back, an HTTP error other than 401, HTTP 401, or no
\* connection / timeout.
Outcomes == {"ok", "lostReply", "httpErr", "http401", "netErr"}

\* Without a stored token the request carries no bearer header and the
\* service answers 401 (when it is reached at all). A disconnected device
\* reaches nothing: every attempt ends as a network error.
OutcomeAllowed(o, accepted) ==
    /\ o \in {"ok", "lostReply"} => hasToken /\ accepted
    /\ o = "httpErr" => hasToken
    /\ ~hook.device => o = "netErr"

-----------------------------------------------------------------------------
(* services/cacheManager.ts over AsyncStorage *)

Emp == "E1"
ViewKey == <<"employee_view_", Emp>>
ProfileKey == <<"user_profile", "_", Emp>>

\* getCacheKey: `cache_${key}`
GetCacheKey(key) == <<"cache_">> \o key

StartsWithCache(k) == Len(k) > 0 /\ k[1] = "cache_"

\* CACHE_KEYS.PAYSLIP(employeeId, month, year): one key per payslip period
PayslipKey(i) == <<"payslip_", Emp, "_", ToString(i)>>

\* Keys that other components keep in the same AsyncStorage
OfflineKey == <<"offline_queue">>
TokenKey == <<"willware_auth_token">>
AuthCacheKey == <<"willware_auth_cache">>

\* AsyncStorage.getAllKeys(): the keys present, in storage scan order. The
\* order is the storage engine's: KeyOrder lists the keys in ascending key
\* order, other engines answer in another order (ScanOrders).
KeyOrder ==
    <<GetCacheKey(ViewKey)>>
        \o [i \in 1..MaxSize |-> GetCacheKey(PayslipKey(i))]
        \o <<GetCacheKey(ProfileKey), OfflineKey, AuthCacheKey, TokenKey>>
StoreKeys == {GetCacheKey(ViewKey), GetCacheKey(ProfileKey), OfflineKey}
AllStoreKeys == {KeyOrder[i] : i \in 1..Len(KeyOrder)}
GetAllKeysIn(st, order) ==
    SelectSeq(order, LAMBDA k : k \in DOMAIN st /\ st[k] # None)
GetAllKeys(st) == GetAllKeysIn(st, KeyOrder)

\* JSON.stringify / JSON.parse of a CacheItem
Stringify(item) == [json |-> item]
Parse(text) == text.json

CacheItem(data, t, expiry) == [data |-> data, timestamp |-> t, expiryTime |-> expiry]

RemoveItem(st, k) == [st EXCEPT ![k] = None]

RECURSIVE MultiRemove(_, _)
MultiRemove(st, ks) ==
    IF ks = << >> THEN st ELSE MultiRemove(RemoveItem(st, Head(ks)), Tail(ks))

\* A cleanup that deletes what has expired and never evicts.
CleanupExpiredOnly(st, t, keys) ==
    MultiRemove(st, SelectSeq(SelectSeq(keys, StartsWithCache),
                              LAMBDA k : t > Parse(st[k][1]).expiryTime))

\* cleanupExpiredItems, given the answer of getAllKeys: delete what has
\* expired, then, when the key list read at the start is longer than maxSize,
\* delete its first (length - maxSize) keys.
CleanupKeys(st, t, keys) ==
    LET cacheKeys == SelectSeq(keys, StartsWithCache)
        expired   == SelectSeq(cacheKeys, LAMBDA k : t > Parse(st[k][1]).expiryTime)
        st1       == MultiRemove(st, expired)
    IN  IF Len(cacheKeys) > MaxSize
        THEN MultiRemove(st1, SubSeq(cacheKeys, 1, Len(cacheKeys) - MaxSize))
        ELSE st1

CleanupExpiredItems(st, t) == CleanupKeys(st, t, GetAllKeys(st))

\* A set that adds the ttl as passed, without the default.
ExpiryOfTtlAsPassed(ttl, t) == t + ttl

\* set: expiryTime = Date.now() + (ttlMs || defaultTTL), so an omitted or
\* zero ttl is the default
ExpiryOf(ttl, t) == t + (IF ttl = 0 THEN DefaultTTL ELSE ttl)

\* set(key, data, ttlMs) under a storage that scans its keys in `order`
CacheSetIn(st, key, data, ttl, t, order) ==
    LET text == Stringify(CacheItem(data, t, ExpiryOf(ttl, t)))
        st1  == [st EXCEPT ![GetCacheKey(key)] = Some(text)]
    IN  CleanupKeys(st1, t, GetAllKeysIn(st1, order))

CacheSet(st, key, data, ttl, t) == CacheSetIn(st, key, data, ttl, t, KeyOrder)

\* A get that treats the expiry instant itself as expired.
ExpiredAtOrAfter(item, t) == t >= item.expiryTime

\* get(key): the item is expired when Date.now() > expiryTime
Expired(item, t) == t > item.expiryTime

CacheGetValue(st, key, t) ==
    LET cached == st[GetCacheKey(key)]
    IN  IF cached = None THEN None
        ELSE IF Expired(Parse(cached[1]), t) THEN None
        ELSE Some(Parse(cached[1]).data)

CacheGetStore(st, key, t) ==
    LET cached == st[GetCacheKey(key)]
    IN  IF cached # None /\ Expired(Parse(cached[1]), t)
        THEN RemoveItem(st, GetCacheKey(key))
        ELSE st

\* remove(key)
CacheRemove(st, key) == RemoveItem(st, GetCacheKey(key))

\* key.includes(pattern), on keys and patterns cut into the same tokens
Includes(k, pattern) ==
    \E i \in 1..(Len(k) + 1 - Len(pattern)) :
        SubSeq(k, i, i + Len(pattern) - 1) = pattern

\* An invalidation that looks at every stored key, not only at the cache's.
InvalidateAnyKey(st, pattern, order) ==
    MultiRemove(st, SelectSeq(GetAllKeysIn(st, order),
                              LAMBDA k : Includes(k, pattern)))

\* invalidatePattern(pattern): multiRemove of the stored keys that start with
\* cache_ and include the pattern
InvalidatePattern(st, pattern, order) ==
    MultiRemove(st, SelectSeq(GetAllKeysIn(st, order),
                              LAMBDA k : StartsWithCache(k) /\ Includes(k, pattern)))

\* clear(): multiRemove of the stored keys that start with cache_
CacheClear(st, order) ==
    MultiRemove(st, SelectSeq(GetAllKeysIn(st, order), StartsWithCache))


-----------------------------------------------------------------------------
(* The dashboard screen: what a render shows *)

\* A lookup that takes the newest record of the timelog, whatever its date.
NewestRecord(details, d) ==
    IF details = None \/ details[1] = << >> THEN None
    ELSE Some(details[1][Len(details[1])])

\* useMemo(() => employeeDetails.timelog.find(log => log.date === today))
TodayAttendanceRecord(details, d) ==
    IF details = None THEN None ELSE FindByDate(details[1], FormatDate(d))

\* renderCheckInStatus: the card shown for the attendance status
CardOf(loading, err, details, rec) ==
    IF loading THEN "loading"
    ELSE IF err /\ details = None THEN "error"
    ELSE IF details = None THEN "hidden"
    ELSE IF rec = None THEN "NotStarted"
    ELSE IF Truthy(rec[1].checkin) /\ Truthy(rec[1].checkout) THEN "Completed"
    ELSE IF Truthy(rec[1].checkin) /\ ~Truthy(rec[1].checkout) THEN "CheckedIn"
    ELSE "hidden"

\* The cards whose action button calls handleCheckInOut ("Check In" and
\* "Check Out"); the "Completed" button is disabled. The loading overlay
\* covers the screen while it is rendered.
CheckInOutPressable(f) == ~f.overlay /\ f.card \in {"NotStarted", "CheckedIn"}

\* A handler that always checks in.
AlwaysCheckIn(rec) == "checkin"

\* handleCheckInOut: isCheckedIn ? 'checkout' : 'checkin'
ActionOf(rec) ==
    IF rec # None /\ Truthy(rec[1].checkin) /\ ~Truthy(rec[1].checkout)
    THEN "checkout"
    ELSE "checkin"

\* The optimistic patch of the earlier dashboard (updateEmployeeDetailsOptimistically):
\* today's record is written locally, with the device's own timestamp ("local").
OptimisticPatch(details, action, d) ==
    IF details = None THEN details
    ELSE IF action = "checkin"
    THEN Some(Append(details[1], DayRecord(FormatDate(d), "local", "", "")))
    ELSE Some([i \in 1..Len(details[1]) |->
                 IF details[1][i].date = FormatDate(d)
                 THEN DayRecord(details[1][i].date, details[1][i].checkin, "local", "local")
                 ELSE details[1][i]])

\* A success handler that patches employeeDetails before the re-fetch.
PatchOnSuccess(details, action, d) ==
    [toast |-> "success", details |-> OptimisticPatch(details, action, d)]

\* A failure handler that shows the state the action would have produced.
GuessOnFailure(details, action, d) ==
    [toast |-> "error", details |-> OptimisticPatch(details, action, d)]

\* handleCheckInOut, response received: the success toast, then the forced
\* refresh; employeeDetails is left as it is.
OnMutationSuccess(details, action, d) == [toast |-> "success", details |-> details]

\* handleCheckInOut, catch: the error toast; nothing else is touched.
OnMutationFailure(details, action, d) == [toast |-> "error", details |-> details]

\* preloadDashboardData: employeeDetails.status === 'fulfilled' ? value : null
SettledEmployeeData(result, prev) == result

\* preloadDashboardData: isManualRefresh || forceRefresh ? 0 : 2 * 60 * 1000.
\* forceRefresh is read from the closure of the render that created the
\* call: it is false for the mount effect, and every other call is manual.
PreloadTtl(isManual) == IF isManual \/ FALSE THEN 0 ELSE PreloadTTL

-----------------------------------------------------------------------------
(* Async invocations *)

IdleTask == [kind |-> "idle", pc |-> "idle", action |-> "none",
             op |-> 0, try |-> 0, sent |-> 0]

NewTask(kind, pc) == [IdleTask EXCEPT !.kind = kind, !.pc = pc]

FreeSlots == {t \in TaskIds : tasks[t].kind = "idle"}
\* a new invocation takes the lowest free slot
NextSlot == CHOOSE t \in FreeSlots : \A u \in FreeSlots : t <= u

IsManual(kind) == kind \in {"checkinout", "refresh"}

\* SpecCache: no cache call made yet
-----------------------------------------------------------------------------
(* services/offlineManager.ts: the in-memory queue and its durable copy *)

\* An OfflineQueueItem. Ids are 1, 2, ... in enqueue order; endpoint, method
\* and data do not matter to the queue and are left out.
QueueItem(id) == [id |-> id, retryCount |-> 0]

ItemIds(q) == [i \in 1..Len(q) |-> q[i].id]
InSeq(x, seq) == \E i \in 1..Len(seq) : seq[i] = x

\* catch: item.retryCount++
Retried(item) == [item EXCEPT !.retryCount = @ + 1]

\* A failure that leaves the item's retryCount as it was.
SettledUncounted(item, ok) == item

\* the item after its processQueueItem call has settled
Settled(item, ok) == IF ok THEN item ELSE Retried(item)

\* A pass that gives up no item: only a success is pushed to processedItems.
LeavesOnSuccess(item, ok) == ok

\* processedItems.push(item.id): on success, and on a failure that brings
\* retryCount to maxRetries
Leaves(item, ok) == ok \/ Settled(item, ok).retryCount >= QueueMaxRetries

\* A filter that keeps every item.
KeepAll(q, processedItems) == q

\* this.queue.filter(item => !processedItems.includes(item.id))
Remaining(q, processedItems) ==
    SelectSeq(q, LAMBDA item : ~InSeq(item.id, processedItems))

\* A guard that only looks at the queue's length.
MayStartUnguarded(processing, q) == q # << >>

\* processQueue: if (this.isProcessing || this.queue.length === 0) return
MayStart(processing, q) == ~processing /\ q # << >>

\* saveQueue: setItem(queueKey, JSON.stringify(this.queue))
SaveQueue(st, q) == [st EXCEPT ![OfflineKey] = Some(Stringify(q))]

\* loadQueue: if (queueData) this.queue = JSON.parse(queueData)
LoadQueue(st, q) == IF st[OfflineKey] = None THEN q ELSE Parse(st[OfflineKey][1])

\* the durable copy of the queue, read as loadQueue would
DurableQueue(st) == LoadQueue(st, << >>)

IdlePass ==
    [pc |-> "idle", items |-> << >>, i |-> 0, processedItems |-> << >>,
     shared |-> FALSE, start |-> << >>, results |-> << >>, enqueued |-> 0]

\* The hooks before their effects have run: useNetworkStatus starts with
\* isConnected and isInternetReachable true; no loadQueue is pending. device
\* is the connectivity NetInfo would report.
UnmountedHook(device) ==
    [mounted |-> FALSE, online |-> TRUE, device |-> device, loading |-> None]

QueueInit ==
    /\ queue = << >>
    /\ isProcessing = FALSE
    /\ pass = IdlePass
    /\ execLog = [count |-> [id \in 1..MaxItems |-> 0], order |-> << >>,
                  succeeded |-> {}, cleared |-> {}, clearedAt |-> None,
                  enqueued |-> 0, reloads |-> 0, last |-> "none"]
    /\ hook = UnmountedHook(TRUE)

-----------------------------------------------------------------------------
(* utils/authOptimizer.ts, the token management of services/apiClient.ts and
   contexts/AuthContext *)

Users == {"E1", "E2"}
Tokens == {"t1", "t2"}

\* AuthResponse['data'] as the service sends it, and the User the app makes
\* of it (id: userData._id, role: 'employee', ...).
RawProfile(u) == [_id |-> u]
ToUser(userData) == [id |-> userData._id, role |-> "employee"]

\* The two stores of the session: SecureStore (when the device has one) and
\* AsyncStorage. token holds the token string, user and cache hold JSON text.
EmptyArea == [token |-> None, user |-> None]
NoSession(secureOk) ==
    [secureOk |-> secureOk, secure |-> EmptyArea,
     disk |-> [token |-> None, user |-> None, cache |-> None]]

\* storeAuthData: both items go to SecureStore when it is available and to
\* AsyncStorage otherwise.
StoreAuthData(st, u, k) ==
    LET token == Some(k)
        user  == Some(Stringify(RawProfile(u)))
    IN  IF st.secureOk
        THEN [st EXCEPT !.secure = [token |-> token, user |-> user]]
        ELSE [st EXCEPT !.disk.token = token, !.disk.user = user]

\* clearAuthData leaving SecureStore alone
ClearDiskOnly(st) == [st EXCEPT !.disk.token = None, !.disk.user = None]

\* clearAuthData: deletes both items from SecureStore when it is available
\* and from AsyncStorage always.
ClearAuthData(st) ==
    [st EXCEPT !.secure = IF st.secureOk THEN EmptyArea ELSE @,
               !.disk.token = None, !.disk.user = None]

\* The AuthCache record and cacheAuthData(user, token) at time t.
AuthCache(user, token, t, isValid) ==
    [user |-> user, token |-> token, timestamp |-> t, isValid |-> isValid]

CacheAuthData(st, user, token, t) ==
    [st EXCEPT !.disk.cache = Some(Stringify(AuthCache(user, token, t, TRUE)))]

\* clearAuthCache removing nothing
KeepAuthCache(st) == st

\* clearAuthCache
ClearAuthCache(st) == [st EXCEPT !.disk.cache = None]

\* The storage read that throws during a call, if one does.
ReadFaults == {"none", "cache", "token", "user"}

\* getCachedAuth: the parsed record, or null when nothing is stored or the
\* read throws.
GetCachedAuth(st, fault) ==
    IF fault = "cache" \/ st.disk.cache = None
    THEN None
    ELSE Some(Parse(st.disk.cache[1]))

\* isCacheValid: cache.isValid && Date.now() - cache.timestamp < 24 hours
IsCacheValidAtOrBefore(cache, t) ==
    cache.isValid /\ t - cache.timestamp <= CacheValidity

IsCacheValid(cache, t) ==
    cache.isValid /\ t - cache.timestamp < CacheValidity

\* getStoredToken reading AsyncStorage only
GetDiskToken(st, fault) ==
    IF fault = "token" THEN None ELSE st.disk.token

\* getStoredToken: SecureStore's item when SecureStore is available, else
\* AsyncStorage's; null when the read throws.
GetStoredToken(st, fault) ==
    IF fault = "token" THEN None
    ELSE IF st.secureOk THEN st.secure.token
    ELSE st.disk.token

\* getStoredUser: SecureStore's text when there is one, else AsyncStorage's,
\* parsed; null when nothing is stored or a read throws.
GetStoredUser(st, fault) ==
    LET text == IF st.secureOk /\ st.secure.user # None
                THEN st.secure.user
                ELSE st.disk.user
    IN  IF fault = "user" \/ text = None THEN None ELSE Some(Parse(text[1]))

NotAuthenticated ==
    [isAuthenticated |-> FALSE, user |-> None, token |-> None,
     shouldVerify |-> FALSE]

\* getFastAuthState at time t
GetFastAuthState(st, t, fault) ==
    LET cached   == GetCachedAuth(st, fault)
        token    == GetStoredToken(st, fault)
        userData == GetStoredUser(st, fault)
    IN  IF cached # None /\ IsCacheValid(cached[1], t)
        THEN [isAuthenticated |-> TRUE, user |-> Some(cached[1].user),
              token |-> Some(cached[1].token), shouldVerify |-> FALSE]
        ELSE IF token # None /\ userData # None
        THEN [isAuthenticated |-> TRUE, user |-> Some(ToUser(userData[1])),
              token |-> token, shouldVerify |-> TRUE]
        ELSE NotAuthenticated

\* What the verification request can end with: 2xx, 401, another HTTP error
\* status, or no connection / the 5 second timeout.
VerifyOutcomes == {"ok", "http401", "httpErr", "netErr"}

\* backgroundAuthVerification, userData being what its getStoredUser read
\* before the request: false without a stored profile, response.ok when the
\* request is answered, true when fetch throws.
BackgroundAuthVerification(userData, o) ==
    IF userData = None THEN FALSE
    ELSE o \in {"ok", "netErr"}

\* authState of the AuthProvider: as constructed, and as set by logout.
InitialAuthState ==
    [isAuthenticated |-> FALSE, user |-> None, token |-> None,
     isLoading |-> TRUE, error |-> FALSE]

LoggedOut ==
    [isAuthenticated |-> FALSE, user |-> None, token |-> None,
     isLoading |-> FALSE, error |-> FALSE]

LoggedIn(user, token) ==
    [isAuthenticated |-> TRUE, user |-> user, token |-> token,
     isLoading |-> FALSE, error |-> FALSE]

\* authState.user of the latest render
CurrentUser(state) == state.user

\* authState.user as verifyAuthInBackground reads it: the function belongs to
\* the render whose mount effect called initializeAuthFast, and that is the
\* first render, so it reads the state the provider was constructed with.
ClosureUser(state) == InitialAuthState.user

\* An auth flow that is not running.
IdleFlow == [pc |-> "idle", user |-> None, token |-> None]

\* The app at its launch on `storage`: initializeAuthFast is about to run.
\* fast is the last result of getFastAuthState, verified the result of the
\* launch's background verification, session the last completed login that
\* no logout has followed, everLoggedIn whether a login has ever succeeded.
Launched(storage) ==
    [storage |-> storage, state |-> InitialAuthState,
     launch |-> [IdleFlow EXCEPT !.pc = "fast"], user |-> IdleFlow,
     fast |-> None, verified |-> None, session |-> None,
     everLoggedIn |-> FALSE, launches |-> 0, elapsed |-> 0,
     last |-> "launch"]

\* A fresh install on a device with SecureStore.
FreshInstall == Launched(NoSession(TRUE))

\* No request of SpecNet is running. timer is the armed abort timer (its
\* delay in seconds) or None, aborted the state of the request's abort
\* signal, log what its attempts ended with.
IdleRequest ==
    [kind |-> "none", useAuth |-> TRUE, pc |-> "idle", attempt |-> 0,
     timer |-> None, aborted |-> FALSE, log |-> << >>, result |-> "none"]

NoCacheCall ==
    [op |-> "none", key |-> ViewKey, at |-> 0, value |-> None, had |-> None,
     calls |-> 0, ttl |-> 0]

InitialFrame == [card |-> "loading", rec |-> None, overlay |-> FALSE]

Init ==
    /\ today = 1
    /\ now = 0
    /\ serverLog = << >>
    /\ hasToken = TRUE
    /\ store = [k \in StoreKeys |-> None]
    /\ employeeDetails = None
    /\ isLoading = TRUE
    /\ error = FALSE
    /\ overlay = FALSE
    /\ toast = "none"
    /\ memoRecord = None
    /\ memoStale = FALSE
    /\ frame = InitialFrame
    /\ mounted = FALSE
    /\ tasks = [t \in TaskIds |-> IdleTask]
    /\ cacheOut = NoCacheCall
    /\ QueueInit
    /\ net = IdleRequest
    /\ auth = FreshInstall

-----------------------------------------------------------------------------
(* The system clock *)

Tick ==
    /\ now < MaxTime
    /\ now' = now + 1
    /\ UNCHANGED <<net, auth, queueVars, today, serverLog, hasToken, store, employeeDetails, isLoading,
                   error, overlay, toast, memoRecord, memoStale,
                   frame, mounted, tasks, cacheOut>>

Midnight ==
    /\ today < MaxDay
    /\ today' = today + 1
    /\ UNCHANGED <<net, auth, queueVars, now, serverLog, hasToken, store, employeeDetails, isLoading,
                   error, overlay, toast, memoRecord, memoStale,
                   frame, mounted, tasks, cacheOut>>

\* A render of the screen (the clock timer re-renders it every second): the
\* memo is recomputed only when its dependency changed.
Render ==
    LET rec == IF memoStale THEN TodayAttendanceRecord(employeeDetails, today)
               ELSE memoRecord
        f   == [card |-> CardOf(isLoading, error, employeeDetails, rec),
                rec |-> rec, overlay |-> overlay]
    IN  /\ memoStale \/ f # frame
        /\ memoRecord' = rec
        /\ memoStale' = FALSE
        /\ frame' = f
        /\ UNCHANGED <<net, auth, queueVars, today, now, serverLog, hasToken, store, employeeDetails,
                       isLoading, error, overlay, toast, mounted,
                       tasks, cacheOut>>


-----------------------------------------------------------------------------
(* handleCheckInOut: the check-in / check-out mutation *)

\* ApiClient.request: a failed attempt is tried again unless it was a 401 or
\* it was the last of RETRY_ATTEMPTS
RequestRetries(o, try) == o # "http401" /\ try < RetryAttempts

\* withRetry(operation, 2): a failed operation is run again unless it was the
\* last of maxRetries
WithRetryRetries(op) == op < MaxRetries

\* A press of "Check In" / "Check Out" on the rendered frame: startLoading,
\* the action chosen from the frame's memoized record, the first request sent.
PressCheckInOut ==
    /\ mounted
    /\ CheckInOutPressable(frame)
    /\ FreeSlots # {}
    /\ overlay' = TRUE
    /\ tasks' = [tasks EXCEPT ![NextSlot] =
                    [NewTask("checkinout", "mutate") EXCEPT
                        !.action = ActionOf(frame.rec),
                        !.op = 1, !.try = 1, !.sent = 1]]
    /\ UNCHANGED <<net, auth, queueVars, today, now, serverLog, hasToken, store, employeeDetails,
                   isLoading, error, toast, memoRecord, memoStale, frame,
                   mounted, cacheOut>>

\* One POST /checkin or /checkout attempt ends.
MutationResponse(t) ==
    /\ tasks[t].kind = "checkinout"
    /\ tasks[t].pc = "mutate"
    /\ \E o \in Outcomes :
        LET task     == tasks[t]
            accepted == ServerAccepts(serverLog, task.action, today)
            err      == IF o = "lostReply" THEN "netErr" ELSE o
            succ     == OnMutationSuccess(employeeDetails, task.action, today)
            fail     == OnMutationFailure(employeeDetails, task.action, today)
        IN  /\ OutcomeAllowed(o, accepted)
            /\ serverLog' = IF o \in {"ok", "lostReply"}
                            THEN ServerApply(serverLog, task.action, today)
                            ELSE serverLog
            /\ hasToken' = (hasToken /\ o # "http401")
            /\ IF o = "ok"
               THEN /\ toast' = succ.toast
                    /\ employeeDetails' = succ.details
                    /\ overlay' = overlay
                    /\ tasks' = [tasks EXCEPT ![t] = NewTask("checkinout", "remove")]
               ELSE IF RequestRetries(err, task.try)
               THEN /\ tasks' = [tasks EXCEPT ![t].try = task.try + 1,
                                              ![t].sent = task.sent + 1]
                    /\ UNCHANGED <<toast, employeeDetails, overlay>>
               ELSE IF WithRetryRetries(task.op)
               THEN /\ tasks' = [tasks EXCEPT ![t].op = task.op + 1,
                                              ![t].try = 1,
                                              ![t].sent = task.sent + 1]
                    /\ UNCHANGED <<toast, employeeDetails, overlay>>
               ELSE /\ toast' = fail.toast
                    /\ employeeDetails' = fail.details
                    /\ overlay' = FALSE
                    /\ tasks' = [tasks EXCEPT ![t] = IdleTask]
            /\ memoStale' = (memoStale \/ employeeDetails' # employeeDetails)
    /\ UNCHANGED <<net, auth, queueVars, today, now, store, isLoading, error, memoRecord, frame,
                   mounted, cacheOut>>

-----------------------------------------------------------------------------
(* useDashboardPreloader and ApiClient.getEmployeeView / getEmployeeDetails *)

\* The mount effect: preloadDashboardData(employeeId, false), up to its cache read.
Mount ==
    /\ ~mounted
    /\ FreeSlots # {}
    /\ mounted' = TRUE
    /\ isLoading' = TRUE
    /\ error' = FALSE
    /\ tasks' = [tasks EXCEPT ![NextSlot] = NewTask("mount", "outerGet")]
    /\ UNCHANGED <<net, auth, queueVars, today, now, serverLog, hasToken, store, employeeDetails,
                   overlay, toast, memoRecord, memoStale, frame, cacheOut>>

\* Pull-to-refresh: handleRefresh -> refreshDashboardData(true), up to its cache.remove.
PullRefresh ==
    /\ mounted
    /\ ~frame.overlay
    /\ FreeSlots # {}
    /\ tasks' = [tasks EXCEPT ![NextSlot] = NewTask("refresh", "remove")]
    /\ UNCHANGED <<net, auth, queueVars, today, now, serverLog, hasToken, store, employeeDetails,
                   isLoading, error, overlay, toast, memoRecord, memoStale,
                   frame, mounted, cacheOut>>

\* cache.remove(`employee_view_${employeeId}`) of a manual or forced refresh
\* completes and preloadDashboardData starts: loading is shown, the cache is read.
RemoveStep(t) ==
    /\ tasks[t].pc = "remove"
    /\ store' = CacheRemove(store, ViewKey)
    /\ isLoading' = TRUE
    /\ error' = FALSE
    /\ tasks' = [tasks EXCEPT ![t].pc = "outerGet"]
    /\ UNCHANGED <<net, auth, queueVars, today, now, serverLog, hasToken, employeeDetails, overlay,
                   toast, memoRecord, memoStale, frame, mounted, cacheOut>>

\* preloadDashboardData settles: setDashboardData, and what the caller does
\* after it (stopLoading, the "refreshed" toast, the warning toast of the
\* error effect).
FinishPreload(t, result) ==
    LET kind == tasks[t].kind
        ed   == SettledEmployeeData(result, employeeDetails)
    IN  /\ employeeDetails' = ed
        /\ memoStale' = (memoStale \/ ed # None \/ employeeDetails # None)
        /\ isLoading' = FALSE
        /\ error' = (result = None)
        /\ toast' = IF result = None THEN "warning"
                    ELSE IF kind = "refresh" THEN "success"
                    ELSE toast
        /\ overlay' = IF kind = "checkinout" THEN FALSE ELSE overlay
        /\ tasks' = [tasks EXCEPT ![t] = IdleTask]

\* cache.getOrSet of the preloader reads the cache: a hit settles the preload.
OuterGetStep(t) ==
    /\ tasks[t].pc = "outerGet"
    /\ LET cached == CacheGetValue(store, ViewKey, now)
       IN  /\ store' = CacheGetStore(store, ViewKey, now)
           /\ IF cached # None
              THEN FinishPreload(t, cached)
              ELSE /\ tasks' = [tasks EXCEPT ![t].pc = "innerGet"]
                   /\ UNCHANGED <<employeeDetails, memoStale, isLoading, error,
                                  toast, overlay>>
    /\ UNCHANGED <<net, auth, queueVars, today, now, serverLog, hasToken, memoRecord, frame, mounted,
                   cacheOut>>

\* cache.getOrSet of apiClient.getEmployeeView reads the cache: a hit is
\* returned (and stored again by the preloader's getOrSet), a miss sends
\* GET /view/{id}.
InnerGetStep(t) ==
    /\ tasks[t].pc = "innerGet"
    /\ LET kind   == tasks[t].kind
           cached == CacheGetValue(store, ViewKey, now)
           st1    == CacheGetStore(store, ViewKey, now)
       IN  IF cached = None
           THEN /\ tasks' = [tasks EXCEPT ![t].pc = "fetch"]
                /\ store' = st1
                /\ UNCHANGED <<employeeDetails, memoStale, isLoading, error,
                               toast, overlay>>
           ELSE /\ FinishPreload(t, cached)
                /\ store' = CacheSet(st1, ViewKey, cached[1],
                                     PreloadTtl(IsManual(kind)), now)
    /\ UNCHANGED <<net, auth, queueVars, today, now, serverLog, hasToken, memoRecord, frame, mounted,
                   cacheOut>>

\* ApiClient.request of GET /view/{id} settles: an attempt succeeded ("ok"),
\* an attempt was answered 401, or all RETRY_ATTEMPTS attempts failed. On
\* success the response is cached by getEmployeeView (1 minute), then by the
\* preloader's getOrSet.
FetchResponse(t) ==
    /\ tasks[t].pc = "fetch"
    /\ \E o \in Outcomes \ {"lostReply"} :
        LET task == tasks[t]
            st1  == CacheSet(store, ViewKey, serverLog, ViewTTL, now)
        IN  /\ OutcomeAllowed(o, TRUE)
            /\ hasToken' = (hasToken /\ o # "http401")
            /\ IF o = "ok"
               THEN /\ store' = CacheSet(st1, ViewKey, serverLog,
                                         PreloadTtl(IsManual(task.kind)), now)
                    /\ FinishPreload(t, Some(serverLog))
               ELSE /\ FinishPreload(t, None)
                    /\ UNCHANGED store
    /\ UNCHANGED <<net, auth, queueVars, today, now, serverLog, memoRecord, frame, mounted, cacheOut>>

\* apiClient.getEmployeeDetails(employeeId): getOrSet on the profile key; on
\* a miss GET /view/{id} (with its attempts) and, when it succeeds, a set with
\* a 5 minute ttl. It touches nothing of the screen.
CallGetEmployeeDetails ==
    /\ mounted
    /\ \E o \in {"ok", "http401", "netErr"} :
        LET cached == CacheGetValue(store, ProfileKey, now)
            st1    == CacheGetStore(store, ProfileKey, now)
        IN  /\ OutcomeAllowed(o, TRUE)
            /\ IF cached # None
               THEN /\ o = "ok"
                    /\ store' = st1
                    /\ UNCHANGED hasToken
               ELSE /\ hasToken' = (hasToken /\ o # "http401")
                    /\ store' = IF o = "ok"
                                THEN CacheSet(st1, ProfileKey, serverLog, DetailsTTL, now)
                                ELSE st1
    /\ UNCHANGED <<net, auth, queueVars, today, now, serverLog, employeeDetails, isLoading, error,
                   overlay, toast, memoRecord, memoStale, frame, mounted, tasks,
                   cacheOut>>

-----------------------------------------------------------------------------
(* Spec: the dashboard screen with its async invocations. The clock of the  *)
(* cache does not advance in it (SpecCache is about expiry).                *)

Next ==
    \/ Midnight
    \/ Render
    \/ Mount
    \/ PressCheckInOut
    \/ PullRefresh
    \/ \E t \in TaskIds : MutationResponse(t)
    \/ \E t \in TaskIds : RemoveStep(t)
    \/ \E t \in TaskIds : OuterGetStep(t)
    \/ \E t \in TaskIds : InnerGetStep(t)
    \/ \E t \in TaskIds : FetchResponse(t)

Spec == Init /\ [][Next]_vars

-----------------------------------------------------------------------------
(* SpecInval: one invocation at a time on one day, with the profile read    *)
(* apiClient.getEmployeeDetails filling the profile entry of the cache.     *)

Solo == \A t \in TaskIds : tasks[t].kind = "idle"

PressAlone == Solo /\ PressCheckInOut

NextInval ==
    \/ Render
    \/ Mount
    \/ PressAlone
    \/ CallGetEmployeeDetails
    \/ Tick
    \/ \E t \in TaskIds : MutationResponse(t)
    \/ \E t \in TaskIds : RemoveStep(t)
    \/ \E t \in TaskIds : OuterGetStep(t)
    \/ \E t \in TaskIds : InnerGetStep(t)
    \/ \E t \in TaskIds : FetchResponse(t)

SpecInval == Init /\ [][NextInval]_vars

-----------------------------------------------------------------------------
(* SpecCache: calls of CacheManager.set and CacheManager.get as time passes *)

\* the values cached: timelogs as the service returns them
CacheData == {<< >>, <<DayRecord(FormatDate(1), "srv", "", "")>>}

\* the ttl arguments the callers pass (0 is the preloader's manual refresh)
CacheTtls == {0, ViewTTL, PreloadTTL, DetailsTTL}

CacheKeys == {ViewKey, ProfileKey}

StoredItem(st, key) ==
    IF st[GetCacheKey(key)] = None THEN None
    ELSE Some(Parse(st[GetCacheKey(key)][1]))

CacheSetCall(key, data, ttl) ==
    /\ store' = CacheSet(store, key, data, ttl, now)
    /\ cacheOut' = [op |-> "set", key |-> key, at |-> now, value |-> Some(data),
                    had |-> StoredItem(store, key), calls |-> 0, ttl |-> ttl]
    /\ UNCHANGED <<net, auth, queueVars, today, now, serverLog, hasToken, employeeDetails, isLoading,
                   error, overlay, toast, memoRecord, memoStale, frame, mounted,
                   tasks>>

CacheGetCall(key) ==
    /\ store' = CacheGetStore(store, key, now)
    /\ cacheOut' = [op |-> "get", key |-> key, at |-> now,
                    value |-> CacheGetValue(store, key, now),
                    had |-> StoredItem(store, key), calls |-> 0, ttl |-> 0]
    /\ UNCHANGED <<net, auth, queueVars, today, now, serverLog, hasToken, employeeDetails, isLoading,
                   error, overlay, toast, memoRecord, memoStale, frame, mounted,
                   tasks>>

NextCache ==
    \/ Tick
    \/ \E key \in CacheKeys, data \in CacheData, ttl \in CacheTtls :
            CacheSetCall(key, data, ttl)
    \/ \E key \in CacheKeys : CacheGetCall(key)

SpecCache == Init /\ [][NextCache]_vars

-----------------------------------------------------------------------------
(* SpecFull: the cache manager on a storage that already holds payslip
   entries up to maxSize and the keys of other components *)

\* A cached value is what response.json() gave: null, or an object, written
\* Some(timelog).
JsNull == None
Bodies == {JsNull, Some(<< >>)}

\* what get resolves with: the stored data, or null when there is no live entry
CacheGet(st, key, t) ==
    LET r == CacheGetValue(st, key, t)
    IN  IF r = None THEN JsNull ELSE r[1]

\* getOrSet(key, fetchFn, ttlMs): fetchFn runs when get resolved with null
GetOrSetCalls(st, key, t) == IF CacheGet(st, key, t) # JsNull THEN 0 ELSE 1

GetOrSetValue(st, key, fetched, t) ==
    IF CacheGet(st, key, t) # JsNull THEN CacheGet(st, key, t) ELSE fetched

GetOrSetStore(st, key, fetched, ttl, t, order) ==
    IF CacheGet(st, key, t) # JsNull
    THEN CacheGetStore(st, key, t)
    ELSE CacheSetIn(CacheGetStore(st, key, t), key, fetched, ttl, t, order)

\* getAllKeys answers in ascending or in descending key order
Reverse(seq) == [i \in 1..Len(seq) |-> seq[Len(seq) + 1 - i]]
ScanOrders == {KeyOrder, Reverse(KeyOrder)}

ForeignKeys == {OfflineKey, AuthCacheKey, TokenKey}
FullKeys == {ViewKey, PayslipKey(1)}
FullTtls == {0, ViewTTL}

\* The payslip entries present at the start, and which of them were written
\* PayslipTTL - 1 minutes earlier and expire at minute 1.
FillerSets == {1..MaxSize, 1..(MaxSize - 1)}
ShortLived == {{}, {1}, {MaxSize}}

FullStore(present, short) ==
    [k \in AllStoreKeys |->
        IF k \in ForeignKeys THEN Some([json |-> << >>])
        ELSE IF \E i \in present : k = GetCacheKey(PayslipKey(i))
        THEN LET i == CHOOSE i \in present : k = GetCacheKey(PayslipKey(i))
                 t == IF i \in short THEN 1 - PayslipTTL ELSE 0
             IN  Some(Stringify(CacheItem(Some(<< >>), t, t + PayslipTTL)))
        ELSE None]

InitFull ==
    /\ today = 1
    /\ now = 0
    /\ serverLog = << >>
    /\ hasToken = TRUE
    /\ \E present \in FillerSets, short \in ShortLived :
            store = FullStore(present, short)
    /\ employeeDetails = None
    /\ isLoading = TRUE
    /\ error = FALSE
    /\ overlay = FALSE
    /\ toast = "none"
    /\ memoRecord = None
    /\ memoStale = FALSE
    /\ frame = InitialFrame
    /\ mounted = FALSE
    /\ tasks = [t \in TaskIds |-> IdleTask]
    /\ cacheOut = NoCacheCall
    /\ QueueInit
    /\ net = IdleRequest
    /\ auth = FreshInstall

FullSetCall(key, data, ttl, order) ==
    /\ store' = CacheSetIn(store, key, data, ttl, now, order)
    /\ cacheOut' = [op |-> "set", key |-> key, at |-> now, value |-> Some(data),
                    had |-> StoredItem(store, key), calls |-> 0, ttl |-> ttl]
    /\ UNCHANGED <<net, auth, queueVars, today, now, serverLog, hasToken, employeeDetails, isLoading,
                   error, overlay, toast, memoRecord, memoStale, frame, mounted,
                   tasks>>

GetOrSetCall(key, fetched, ttl, order) ==
    /\ store' = GetOrSetStore(store, key, fetched, ttl, now, order)
    /\ cacheOut' = [op |-> "getOrSet", key |-> key, at |-> now,
                    value |-> Some(GetOrSetValue(store, key, fetched, now)),
                    had |-> StoredItem(store, key),
                    calls |-> GetOrSetCalls(store, key, now), ttl |-> ttl]
    /\ UNCHANGED <<net, auth, queueVars, today, now, serverLog, hasToken, employeeDetails, isLoading,
                   error, overlay, toast, memoRecord, memoStale, frame, mounted,
                   tasks>>

\* the patterns passed: an employee id, a key family, the cache prefix
\* itself and the name of another component's key
Patterns == {<<Emp>>, <<"employee_view_">>, <<"cache_">>, OfflineKey}

\* had: the employee view entry before the call
InvalidatePatternCall(pattern, order) ==
    /\ store' = InvalidatePattern(store, pattern, order)
    /\ cacheOut' = [op |-> "invalidatePattern", key |-> pattern, at |-> now,
                    value |-> None, had |-> StoredItem(store, ViewKey),
                    calls |-> 0, ttl |-> 0]
    /\ UNCHANGED <<net, auth, queueVars, today, now, serverLog, hasToken, employeeDetails, isLoading,
                   error, overlay, toast, memoRecord, memoStale, frame, mounted,
                   tasks>>

ClearCall(order) ==
    /\ store' = CacheClear(store, order)
    /\ cacheOut' = [op |-> "clear", key |-> ViewKey, at |-> now,
                    value |-> None, had |-> StoredItem(store, ViewKey),
                    calls |-> 0, ttl |-> 0]
    /\ UNCHANGED <<net, auth, queueVars, today, now, serverLog, hasToken, employeeDetails, isLoading,
                   error, overlay, toast, memoRecord, memoStale, frame, mounted,
                   tasks>>

NextFull ==
    \/ Tick
    \/ \E key \in FullKeys, data \in Bodies, ttl \in FullTtls, order \in ScanOrders :
            FullSetCall(key, data, ttl, order)
    \/ \E key \in FullKeys : CacheGetCall(key)
    \/ \E key \in FullKeys, fetched \in Bodies, ttl \in FullTtls,
          order \in ScanOrders : GetOrSetCall(key, fetched, ttl, order)
    \/ \E pattern \in Patterns, order \in ScanOrders :
            InvalidatePatternCall(pattern, order)
    \/ \E order \in ScanOrders : ClearCall(order)

SpecFull == InitFull /\ [][NextFull]_vars

-----------------------------------------------------------------------------
(* SpecFail: the cache manager when a storage call throws or when the text
   stored under a cache key is not a serialized CacheItem *)

\* Stored texts that set did not write: text that is not JSON, the JSON text
\* null, and JSON of another shape (an object without data and expiryTime).
Unparseable == [raw |-> "{"]
NullText == [json |-> JsNull]
WrongShape == [json |-> [other |-> "x"]]
BadTexts == {Unparseable, NullText, WrongShape}

\* JSON.parse(text) returns
Parses(text) == "json" \in DOMAIN text
\* the parsed value is an object (property reads on null throw a TypeError)
IsObject(v) == DOMAIN v # {}
IsCacheItem(v) == {"data", "expiryTime"} \subseteq DOMAIN v
Corrupted(text) == ~Parses(text) \/ ~IsCacheItem(Parse(text))

\* The storage call that throws during one cache call, if any
IoFaults == {"none", "getItem", "setItem", "removeItem", "getAllKeys", "multiRemove"}

\* Date.now() > cacheItem.expiryTime; a comparison with undefined is false
ExpiredItem(item, t) == "expiryTime" \in DOMAIN item /\ Expired(item, t)

\* get(key) inside its try / catch: what it resolves with
GetKind(st, key, t, io) ==
    LET cached == st[GetCacheKey(key)]
    IN  IF io = "getItem" THEN "null"
        ELSE IF cached = None THEN "null"
        ELSE IF ~Parses(cached[1]) THEN "null"
        ELSE IF ~IsObject(Parse(cached[1])) THEN "null"
        ELSE IF ExpiredItem(Parse(cached[1]), t) THEN "null"
        ELSE IF "data" \notin DOMAIN Parse(cached[1]) THEN "undefined"
        ELSE IF Parse(cached[1]).data = JsNull THEN "null"
        ELSE "value"

GetData(st, key, t, io) ==
    IF GetKind(st, key, t, io) = "value"
    THEN Parse(st[GetCacheKey(key)][1]).data ELSE JsNull

\* remove(key) inside its try / catch
RemoveFaulty(st, k, io) == IF io = "removeItem" THEN st ELSE RemoveItem(st, k)

GetStoreFaulty(st, key, t, io) ==
    LET cached == st[GetCacheKey(key)]
    IN  IF /\ io # "getItem"
           /\ cached # None
           /\ Parses(cached[1])
           /\ IsObject(Parse(cached[1]))
           /\ ExpiredItem(Parse(cached[1]), t)
        THEN RemoveFaulty(st, GetCacheKey(key), io)
        ELSE st

\* the loop of cleanupExpiredItems: it ends at the first getItem or
\* JSON.parse that throws
RECURSIVE CleanupLoop(_, _, _, _)
CleanupLoop(st, t, keys, io) ==
    IF keys = << >> THEN [st |-> st, threw |-> FALSE]
    ELSE IF io = "getItem" THEN [st |-> st, threw |-> TRUE]
    ELSE IF st[Head(keys)] = None THEN CleanupLoop(st, t, Tail(keys), io)
    ELSE IF ~Parses(st[Head(keys)][1]) THEN [st |-> st, threw |-> TRUE]
    ELSE IF ~IsObject(Parse(st[Head(keys)][1])) THEN [st |-> st, threw |-> TRUE]
    ELSE IF ExpiredItem(Parse(st[Head(keys)][1]), t)
    THEN CleanupLoop(RemoveFaulty(st, Head(keys), io), t, Tail(keys), io)
    ELSE CleanupLoop(st, t, Tail(keys), io)

\* cleanupExpiredItems inside its try / catch
CleanupFaulty(st, t, order, io) ==
    IF io = "getAllKeys" THEN st
    ELSE LET cacheKeys == SelectSeq(GetAllKeysIn(st, order), StartsWithCache)
             loop      == CleanupLoop(st, t, cacheKeys, io)
         IN  IF loop.threw \/ io = "multiRemove" \/ Len(cacheKeys) <= MaxSize
             THEN loop.st
             ELSE MultiRemove(loop.st, SubSeq(cacheKeys, 1, Len(cacheKeys) - MaxSize))

\* set(key, data, ttlMs) inside its try / catch
SetFaulty(st, key, data, ttl, t, order, io) ==
    IF io = "setItem" THEN st
    ELSE CleanupFaulty(
            [st EXCEPT ![GetCacheKey(key)] =
                Some(Stringify(CacheItem(data, t, ExpiryOf(ttl, t))))],
            t, order, io)

\* clear() and invalidatePattern(pattern) inside their try / catch
ClearFaulty(st, order, io) ==
    IF io \in {"getAllKeys", "multiRemove"} THEN st ELSE CacheClear(st, order)

InvalidateFaulty(st, pattern, order, io) ==
    IF io \in {"getAllKeys", "multiRemove"} THEN st
    ELSE InvalidatePattern(st, pattern, order)

\* getOrSet: `cached !== null` is true of a value and of undefined
GetOrSetHit(st, key, t, io) == GetKind(st, key, t, io) \in {"value", "undefined"}

InitFail ==
    /\ today = 1
    /\ now = 0
    /\ serverLog = << >>
    /\ hasToken = TRUE
    /\ \E view \in {None} \cup {Some(x) : x \in BadTexts} :
            store = [k \in StoreKeys |->
                        IF k = GetCacheKey(ViewKey) THEN view
                        ELSE IF k = OfflineKey THEN Some([json |-> << >>])
                        ELSE None]
    /\ employeeDetails = None
    /\ isLoading = TRUE
    /\ error = FALSE
    /\ overlay = FALSE
    /\ toast = "none"
    /\ memoRecord = None
    /\ memoStale = FALSE
    /\ frame = InitialFrame
    /\ mounted = FALSE
    /\ tasks = [t \in TaskIds |-> IdleTask]
    /\ cacheOut = NoCacheCall
    /\ QueueInit
    /\ net = IdleRequest
    /\ auth = FreshInstall

\* the record of one cache call: the storage fault, the text that was stored
\* under the key, and what the call resolved with
FaultyCall(op, key, io, kind, data, calls, fetched) ==
    [op |-> op, key |-> key, at |-> now, io |-> io,
     stored |-> store[GetCacheKey(key)], kind |-> kind, value |-> data,
     calls |-> calls, fetched |-> fetched]

FailGetCall(key, io) ==
    /\ store' = GetStoreFaulty(store, key, now, io)
    /\ cacheOut' = FaultyCall("get", key, io, GetKind(store, key, now, io),
                              GetData(store, key, now, io), 0, JsNull)
    /\ UNCHANGED <<net, auth, queueVars, today, now, serverLog, hasToken, employeeDetails, isLoading,
                   error, overlay, toast, memoRecord, memoStale, frame, mounted,
                   tasks>>

FailSetCall(key, data, ttl, io) ==
    /\ store' = SetFaulty(store, key, data, ttl, now, KeyOrder, io)
    /\ cacheOut' = FaultyCall("set", key, io, "void", JsNull, 0, JsNull)
    /\ UNCHANGED <<net, auth, queueVars, today, now, serverLog, hasToken, employeeDetails, isLoading,
                   error, overlay, toast, memoRecord, memoStale, frame, mounted,
                   tasks>>

FailRemoveCall(key, io) ==
    /\ store' = RemoveFaulty(store, GetCacheKey(key), io)
    /\ cacheOut' = FaultyCall("remove", key, io, "void", JsNull, 0, JsNull)
    /\ UNCHANGED <<net, auth, queueVars, today, now, serverLog, hasToken, employeeDetails, isLoading,
                   error, overlay, toast, memoRecord, memoStale, frame, mounted,
                   tasks>>

FailClearCall(io) ==
    /\ store' = ClearFaulty(store, KeyOrder, io)
    /\ cacheOut' = FaultyCall("clear", ViewKey, io, "void", JsNull, 0, JsNull)
    /\ UNCHANGED <<net, auth, queueVars, today, now, serverLog, hasToken, employeeDetails, isLoading,
                   error, overlay, toast, memoRecord, memoStale, frame, mounted,
                   tasks>>

FailInvalidateCall(io) ==
    /\ store' = InvalidateFaulty(store, <<Emp>>, KeyOrder, io)
    /\ cacheOut' = FaultyCall("invalidatePattern", ViewKey, io, "void", JsNull,
                              0, JsNull)
    /\ UNCHANGED <<net, auth, queueVars, today, now, serverLog, hasToken, employeeDetails, isLoading,
                   error, overlay, toast, memoRecord, memoStale, frame, mounted,
                   tasks>>

\* getOrSet has no try / catch of its own: get and set catch what the
\* storage throws, fetchFn resolves with `fetched`
FailGetOrSetCall(key, fetched, ttl, io) ==
    /\ store' = IF GetOrSetHit(store, key, now, io)
                THEN GetStoreFaulty(store, key, now, io)
                ELSE SetFaulty(GetStoreFaulty(store, key, now, io), key, fetched,
                               ttl, now, KeyOrder, io)
    /\ cacheOut' = IF GetOrSetHit(store, key, now, io)
                   THEN FaultyCall("getOrSet", key, io,
                                   GetKind(store, key, now, io),
                                   GetData(store, key, now, io), 0, fetched)
                   ELSE FaultyCall("getOrSet", key, io, "value", fetched, 1, fetched)
    /\ UNCHANGED <<net, auth, queueVars, today, now, serverLog, hasToken, employeeDetails, isLoading,
                   error, overlay, toast, memoRecord, memoStale, frame, mounted,
                   tasks>>

\* what computeFn resolves with here: an object
Fetched == {Some(<< >>), Some(<<DayRecord(FormatDate(1), "srv", "", "")>>)}

NextFail ==
    \/ Tick
    \/ \E key \in CacheKeys, io \in {"none", "getItem", "removeItem"} :
            FailGetCall(key, io)
    \/ \E key \in CacheKeys, data \in Fetched, ttl \in FullTtls,
          io \in {"none", "setItem", "getAllKeys", "getItem"} :
            FailSetCall(key, data, ttl, io)
    \/ \E key \in CacheKeys, io \in {"none", "removeItem"} : FailRemoveCall(key, io)
    \/ \E io \in {"none", "getAllKeys", "multiRemove"} : FailClearCall(io)
    \/ \E io \in {"none", "getAllKeys", "multiRemove"} : FailInvalidateCall(io)
    \/ \E key \in CacheKeys, fetched \in Fetched, ttl \in FullTtls,
          io \in {"none", "getItem", "setItem"} :
            FailGetOrSetCall(key, fetched, ttl, io)

SpecFail == InitFail /\ [][NextFail]_vars

-----------------------------------------------------------------------------
(* SpecQueue: the offline queue in one app session, restarted only between
   passes. SpecReload: the queue reloaded from storage at any moment. *)

\* the executor (processQueueItem) is called for item k of the iterated array
Invoke(log, items, k) ==
    [log EXCEPT !.count[items[k].id] = @ + 1,
                !.order = Append(@, items[k].id)]

\* addToQueue: push, then saveQueue. While a pass iterates this.queue the
\* pushed item is seen by its for-of loop.
AddToQueue ==
    /\ execLog.enqueued < MaxItems
    /\ LET item == QueueItem(execLog.enqueued + 1)
       IN  /\ queue' = Append(queue, item)
           /\ pass' = IF pass.pc = "exec" /\ pass.shared
                      THEN [pass EXCEPT !.items = Append(@, item)]
                      ELSE pass
           /\ store' = SaveQueue(store, Append(queue, item))
    /\ execLog' = [execLog EXCEPT !.enqueued = @ + 1, !.last = "enqueued"]
    /\ UNCHANGED <<appVars, hook, isProcessing>>

\* processQueue(apiClient), up to the first await: it returns at once, or
\* takes the flag and calls the executor for the first item
StartOrSkip ==
    IF MayStart(isProcessing, queue)
    THEN /\ isProcessing' = TRUE
         /\ pass' = [pc |-> "exec", items |-> queue, i |-> 1,
                     processedItems |-> << >>, shared |-> TRUE,
                     start |-> queue, results |-> << >>,
                     enqueued |-> execLog.enqueued]
         /\ execLog' = Invoke([execLog EXCEPT !.order = << >>, !.last = "started",
                                               !.clearedAt = None],
                              queue, 1)
         /\ UNCHANGED <<appVars, store, queue>>
    ELSE /\ execLog' = [execLog EXCEPT !.last = "skipped"]
         /\ UNCHANGED <<appVars, store, queue, isProcessing, pass>>

ProcessQueue == StartOrSkip /\ UNCHANGED hook

\* the awaited processQueueItem settles (ok, or it threw): the catch counts
\* the failure, then the loop goes on to the next item or ends; at its end
\* the processed items are filtered out and saveQueue writes the queue
ExecutorSettles(ok) ==
    /\ pass.pc = "exec"
    /\ LET item  == pass.items[pass.i]
           items == [pass.items EXCEPT ![pass.i] = Settled(item, ok)]
           q     == IF pass.shared THEN items ELSE queue
           done  == IF Leaves(item, ok)
                    THEN Append(pass.processedItems, item.id)
                    ELSE pass.processedItems
           p     == [pass EXCEPT !.items = items, !.processedItems = done,
                                 !.results = Append(@, ok)]
           log   == [execLog EXCEPT !.last = "settled",
                        !.succeeded = IF ok THEN @ \cup {item.id} ELSE @]
       IN  IF pass.i < Len(items)
           THEN /\ pass' = [p EXCEPT !.i = @ + 1]
                /\ queue' = q
                /\ execLog' = Invoke(log, items, pass.i + 1)
                /\ UNCHANGED store
           ELSE /\ pass' = [p EXCEPT !.pc = "save"]
                /\ queue' = Remaining(q, done)
                /\ store' = SaveQueue(store, Remaining(q, done))
                /\ execLog' = log
    /\ UNCHANGED <<appVars, hook, isProcessing>>

\* saveQueue has resolved: this.isProcessing = false
FinishPass ==
    /\ pass.pc = "save"
    /\ isProcessing' = FALSE
    /\ pass' = IdlePass
    /\ execLog' = [execLog EXCEPT !.last = "ended"]
    /\ UNCHANGED <<appVars, hook, store, queue>>

\* The app is started again: a new OfflineManager, then initialize()
Restarted ==
    /\ queue' = DurableQueue(store)
    /\ isProcessing' = FALSE
    /\ pass' = IdlePass
    /\ execLog' = [execLog EXCEPT !.last = "restarted"]
    /\ UNCHANGED <<appVars, hook, store>>

\* the app is closed and started again between two passes
Restart ==
    /\ pass.pc = "idle"
    /\ Restarted

NextQueue ==
    \/ AddToQueue
    \/ ProcessQueue
    \/ \E ok \in BOOLEAN : ExecutorSettles(ok)
    \/ FinishPass
    \/ Restart

SpecQueue == Init /\ [][NextQueue]_vars

\* the app is killed while a pass is running, and started again
Kill ==
    /\ pass.pc # "idle"
    /\ execLog.reloads < MaxReloads
    /\ queue' = DurableQueue(store)
    /\ isProcessing' = FALSE
    /\ pass' = IdlePass
    /\ execLog' = [execLog EXCEPT !.reloads = @ + 1, !.last = "restarted"]
    /\ UNCHANGED <<appVars, hook, store>>

\* initialize() (the mount effect of useOfflineManager) runs loadQueue again:
\* this.queue becomes a new array, a running pass keeps iterating the old one
Initialize ==
    /\ execLog.reloads < MaxReloads
    /\ queue' = LoadQueue(store, queue)
    /\ pass' = [pass EXCEPT !.shared = @ /\ store[OfflineKey] = None]
    /\ execLog' = [execLog EXCEPT !.reloads = @ + 1, !.last = "initialized"]
    /\ UNCHANGED <<appVars, hook, store, isProcessing>>

\* clearQueue(): this.queue becomes a new empty array and the durable list is
\* removed; a running pass keeps iterating the array it started with
ClearQueue ==
    /\ queue' = << >>
    /\ store' = RemoveItem(store, OfflineKey)
    /\ pass' = [pass EXCEPT !.shared = FALSE]
    /\ execLog' = [execLog EXCEPT !.last = "cleared",
                        !.cleared = IF pass.pc = "exec"
                                    THEN @ \cup {queue[k].id : k \in 1..Len(queue)}
                                    ELSE @,
                        !.clearedAt = IF pass.pc = "exec" THEN Some(execLog.enqueued)
                                      ELSE @]
    /\ UNCHANGED <<appVars, hook, isProcessing>>

NextClear ==
    \/ NextQueue
    \/ ClearQueue

SpecClear == Init /\ [][NextClear]_vars

NextReload ==
    \/ NextQueue
    \/ Kill
    \/ Initialize

SpecReload == Init /\ [][NextReload]_vars

-----------------------------------------------------------------------------
(* SpecHook: the offline queue driven by useOfflineManager: the app starts,
   the hook's effects run, NetInfo reports connectivity changes *)

\* The app process is started (again): a new OfflineManager with an empty
\* queue, and hooks that have not run their effects yet.
AppStart ==
    /\ execLog.reloads < MaxReloads
    /\ queue' = << >>
    /\ isProcessing' = FALSE
    /\ pass' = IdlePass
    /\ hook' = UnmountedHook(hook.device)
    /\ execLog' = [execLog EXCEPT !.reloads = @ + 1, !.last = "restarted"]
    /\ UNCHANGED <<appVars, store>>

\* The effects of the first render: initialize() calls loadQueue, whose
\* getItem is now pending; then, networkState being connected and reachable,
\* processQueue(apiClient) is called.
HookMount ==
    /\ ~hook.mounted
    /\ hook' = [hook EXCEPT !.mounted = TRUE, !.loading = Some(store[OfflineKey])]
    /\ StartOrSkip

\* loadQueue continues after its getItem: if (queueData) this.queue = ...
LoadDone ==
    /\ hook.loading # None
    /\ queue' = IF hook.loading[1] = None THEN queue ELSE Parse(hook.loading[1][1])
    /\ pass' = [pass EXCEPT !.shared = @ /\ hook.loading[1] = None]
    /\ hook' = [hook EXCEPT !.loading = None]
    /\ execLog' = [execLog EXCEPT !.last = "initialized"]
    /\ UNCHANGED <<appVars, store, isProcessing>>

\* the device gains or loses its connection
DeviceChange ==
    /\ hook' = [hook EXCEPT !.device = ~@]
    /\ UNCHANGED <<appVars, store, queue, isProcessing, pass, execLog>>

\* NetInfo's listener runs setNetworkState; when isConnected /
\* isInternetReachable changed, the effect runs again and calls processQueue
\* if the device is now connected and reachable
NetEvent ==
    /\ hook.mounted
    /\ hook.online # hook.device
    /\ hook' = [hook EXCEPT !.online = hook.device]
    /\ IF hook.device
       THEN StartOrSkip
       ELSE UNCHANGED <<appVars, store, queue, isProcessing, pass, execLog>>

\* addToOfflineQueue of the hook
AddToOfflineQueue == hook.mounted /\ AddToQueue

NextHook ==
    \/ AppStart
    \/ HookMount
    \/ LoadDone
    \/ DeviceChange
    \/ NetEvent
    \/ AddToOfflineQueue
    \/ \E ok \in BOOLEAN : ExecutorSettles(ok)
    \/ FinishPass

SpecHook == Init /\ [][NextHook]_vars

\* The home screen on a device whose connectivity comes and goes: the steps
\* of SpecInval and the device gaining or losing its connection.
NextOffline == NextInval \/ DeviceChange

SpecOffline == Init /\ [][NextOffline]_vars

-----------------------------------------------------------------------------
(* SpecAuth: the AuthProvider over the stored session. The user logs in and
   out when no other auth flow is running; the app is relaunched at any
   moment, which ends the flows in flight and leaves the stores as they are.
   SpecFast: getFastAuthState applied to every stored session of a bounded
   input set, with and without a storage read that throws. *)

nonAuthVars == <<net, queueVars, store, today, serverLog, hasToken,
                 employeeDetails, isLoading, error, overlay, toast,
                 memoRecord, memoStale, frame, mounted, tasks, cacheOut>>

\* The process is started again: a new AuthProvider with its initial state,
\* whose mount effect calls initializeAuthFast.
AppLaunch ==
    /\ auth.launches < MaxLaunches
    /\ auth' = [Launched(auth.storage) EXCEPT
                    !.session = auth.session,
                    !.everLoggedIn = auth.everLoggedIn,
                    !.launches = auth.launches + 1,
                    !.elapsed = auth.elapsed]
    /\ UNCHANGED <<nonAuthVars, now>>

\* Time passes: a minute, or a minute less than the cache validity.
Elapse ==
    /\ auth.elapsed < MaxElapse
    /\ \E d \in {1, CacheValidity - 1} : now' = now + d
    /\ auth' = [auth EXCEPT !.elapsed = @ + 1]
    /\ UNCHANGED nonAuthVars

\* The authState initializeAuthFast sets from getFastAuthState's result, and
\* one that would keep loading while a verification is wanted.
StateAwaitingVerification(fastAuth) ==
    [isAuthenticated |-> fastAuth.isAuthenticated, user |-> fastAuth.user,
     token |-> fastAuth.token, isLoading |-> fastAuth.shouldVerify,
     error |-> FALSE]

StateAfterFast(fastAuth) ==
    [isAuthenticated |-> fastAuth.isAuthenticated, user |-> fastAuth.user,
     token |-> fastAuth.token, isLoading |-> FALSE, error |-> FALSE]

\* RootLayoutNav: no routing while isLoading, then the tabs or the login
\* screen by isAuthenticated.
Screen(state) ==
    IF state.isLoading THEN "pending"
    ELSE IF state.isAuthenticated THEN "tabs"
    ELSE "login"

\* initializeAuthFast: getFastAuthState, setAuthState with its result and
\* isLoading false, and verifyAuthInBackground when shouldVerify and a token
\* came back. fault is the storage read that throws, if one does.
InitializeAuthFastWith(fault) ==
    /\ auth.launch.pc = "fast"
    /\ LET fastAuth == GetFastAuthState(auth.storage, now, fault)
       IN  auth' = [auth EXCEPT
                !.state = StateAfterFast(fastAuth),
                !.launch = IF fastAuth.shouldVerify /\ fastAuth.token # None
                           THEN [IdleFlow EXCEPT
                                    !.pc = "verify",
                                    !.token = fastAuth.token,
                                    !.user = GetStoredUser(auth.storage, "none")]
                           ELSE [IdleFlow EXCEPT !.pc = "done"],
                !.fast = Some([fault |-> fault, result |-> fastAuth]),
                !.last = "fast"]
    /\ UNCHANGED <<nonAuthVars, now>>

InitializeAuthFast == InitializeAuthFastWith("none")

\* verifyAuthInBackground when backgroundAuthVerification, which read the
\* stored profile when it was called, has resolved: on
\* false logout() starts (it sets isLoading before its first await), on true
\* cacheAuthData(authState.user, token) runs if authState.user is set.
VerifyResponse ==
    /\ auth.launch.pc = "verify"
    /\ \E o \in VerifyOutcomes :
        LET isValid == BackgroundAuthVerification(auth.launch.user, o)
            user    == ClosureUser(auth.state)
            sent    == auth.launch.user # None
        IN  auth' = [auth EXCEPT
                !.verified = Some([outcome |-> IF sent THEN o ELSE "notSent",
                                   isValid |-> isValid]),
                !.last = "verified",
                !.session = IF isValid THEN @ ELSE None,
                !.state = IF isValid THEN @ ELSE [@ EXCEPT !.isLoading = TRUE],
                !.launch = IF isValid THEN [IdleFlow EXCEPT !.pc = "done"]
                           ELSE [IdleFlow EXCEPT !.pc = "logout"],
                !.storage = IF isValid /\ user # None
                            THEN CacheAuthData(@, user[1],
                                               auth.launch.token[1], now)
                            ELSE @]
    /\ UNCHANGED <<nonAuthVars, now>>

\* logout(), first part: apiClient.logout() = clearAuthData.
LogoutClearData(f) ==
    /\ auth[f].pc = "logout"
    /\ auth' = [auth EXCEPT ![f].pc = "clearCache",
                            !.storage = ClearAuthData(@),
                            !.last = "clearData"]
    /\ UNCHANGED <<nonAuthVars, now>>

\* logout(), second part: clearAuthCache and the logged-out authState.
LogoutClearCache(f) ==
    /\ auth[f].pc = "clearCache"
    /\ auth' = [auth EXCEPT ![f] = IF f = "launch"
                                   THEN [IdleFlow EXCEPT !.pc = "done"]
                                   ELSE IdleFlow,
                            !.storage = ClearAuthCache(@),
                            !.state = LoggedOut,
                            !.last = "logout"]
    /\ UNCHANGED <<nonAuthVars, now>>

\* The screens let the user start a flow: nothing else is running.
UserMayAct ==
    /\ auth.launch.pc = "done"
    /\ auth.user.pc = "idle"
    /\ ~auth.state.isLoading

\* logout() up to its first await
StartLogout ==
    /\ auth.state.isAuthenticated
    /\ auth' = [auth EXCEPT !.user.pc = "logout",
                            !.state.isLoading = TRUE,
                            !.session = None,
                            !.last = "pressLogout"]
    /\ UNCHANGED <<nonAuthVars, now>>

\* The logout button of the profile tab.
PressLogout == UserMayAct /\ StartLogout

\* login(credentials) up to its first await: it sets isLoading and posts to
\* /login
StartLogin ==
    /\ ~auth.state.isAuthenticated
    /\ \E u \in Users :
        auth' = [auth EXCEPT
                    !.user = [IdleFlow EXCEPT
                                !.pc = "post",
                                !.user = Some(ToUser(RawProfile(u)))],
                    !.state = [@ EXCEPT !.isLoading = TRUE, !.error = FALSE],
                    !.last = "pressLogin"]
    /\ UNCHANGED <<nonAuthVars, now>>

\* The login form.
PressLogin == UserMayAct /\ StartLogin

\* What POST /login can end with: the profile and a token, 401, another
\* failure of the request or a response of the wrong format.
LoginOutcomes == {"ok", "http401", "failed"}

\* apiClient.login resolves or throws. On success storeAuthData has run and
\* login() sets the authenticated state; request() answers a 401 with
\* clearAuthData; every failure leaves the state with its error.
LoginResponse ==
    /\ auth.user.pc = "post"
    /\ \E o \in LoginOutcomes, k \in Tokens :
        LET user == auth.user.user
            u    == user[1].id
        IN  auth' = [auth EXCEPT
                !.storage = IF o = "ok" THEN StoreAuthData(@, u, k)
                            ELSE IF o = "http401" THEN ClearAuthData(@)
                            ELSE @,
                !.everLoggedIn = @ \/ o = "ok",
                !.state = IF o = "ok" THEN LoggedIn(user, Some(k))
                          ELSE [@ EXCEPT !.isLoading = FALSE, !.error = TRUE],
                !.user = IF o = "ok"
                         THEN [@ EXCEPT !.pc = "cache", !.token = Some(k)]
                         ELSE IdleFlow,
                !.last = IF o = "ok" THEN "stored" ELSE "loginFailed"]
    /\ UNCHANGED <<nonAuthVars, now>>

\* login(), last part: cacheAuthData(user, token).
LoginCache ==
    /\ auth.user.pc = "cache"
    /\ auth' = [auth EXCEPT
            !.storage = CacheAuthData(@, auth.user.user[1],
                                      auth.user.token[1], now),
            !.session = Some([user |-> auth.user.user,
                              token |-> auth.user.token, at |-> now]),
            !.user = IdleFlow,
            !.last = "login"]
    /\ UNCHANGED <<nonAuthVars, now>>

InitAuth ==
    /\ today = 1
    /\ now = 0
    /\ serverLog = << >>
    /\ hasToken = TRUE
    /\ store = [k \in StoreKeys |-> None]
    /\ employeeDetails = None
    /\ isLoading = TRUE
    /\ error = FALSE
    /\ overlay = FALSE
    /\ toast = "none"
    /\ memoRecord = None
    /\ memoStale = FALSE
    /\ frame = InitialFrame
    /\ mounted = FALSE
    /\ tasks = [t \in TaskIds |-> IdleTask]
    /\ cacheOut = NoCacheCall
    /\ QueueInit
    /\ net = IdleRequest
    /\ \E secureOk \in BOOLEAN : auth = Launched(NoSession(secureOk))

NextAuth ==
    \/ AppLaunch
    \/ Elapse
    \/ InitializeAuthFast
    \/ VerifyResponse
    \/ \E f \in {"launch", "user"} : LogoutClearData(f)
    \/ \E f \in {"launch", "user"} : LogoutClearCache(f)
    \/ PressLogout
    \/ PressLogin
    \/ LoginResponse
    \/ LoginCache

SpecAuth == InitAuth /\ [][NextAuth]_vars

\* SpecAuthRace: the user also acts while the launch's verification is in
\* flight. The screens are routed as soon as isLoading is false, so the
\* logout button and the login form are there whenever no flow holds
\* isLoading.
ScreenLetsUserAct ==
    /\ auth.user.pc = "idle"
    /\ ~auth.state.isLoading

LogoutAnyTime == ScreenLetsUserAct /\ StartLogout
LoginAnyTime == ScreenLetsUserAct /\ StartLogin

NextAuthRace ==
    \/ AppLaunch
    \/ Elapse
    \/ InitializeAuthFast
    \/ VerifyResponse
    \/ \E f \in {"launch", "user"} : LogoutClearData(f)
    \/ \E f \in {"launch", "user"} : LogoutClearCache(f)
    \/ LogoutAnyTime
    \/ LoginAnyTime
    \/ LoginResponse
    \/ LoginCache

SpecAuthRace == InitAuth /\ [][NextAuthRace]_vars

\* SpecAuth in which a launch's initializeAuthFast does run (its storage reads
\* resolve); nothing is assumed of the verification request, which may stay
\* pending for ever.
SpecAuthLive == SpecAuth /\ WF_vars(InitializeAuthFast)

\* An authenticated request of the API client, made from a screen of the
\* tabs, is answered with 401: request() runs clearAuthData and throws an
\* ApiError to the screen that made the call.
ApiRejected ==
    /\ Screen(auth.state) = "tabs"
    /\ auth' = [auth EXCEPT !.storage = ClearAuthData(@),
                            !.last = "rejected"]
    /\ hasToken' = FALSE
    /\ UNCHANGED <<net, queueVars, store, today, now, serverLog,
                   employeeDetails, isLoading, error, overlay, toast,
                   memoRecord, memoStale, frame, mounted, tasks, cacheOut>>

\* SpecAuthApi: SpecAuth with the API calls of the logged-in screens being
\* rejected by the service.
NextAuthApi == NextAuth \/ ApiRejected

SpecAuthApi == InitAuth /\ [][NextAuthApi]_vars

-----------------------------------------------------------------------------
(* SpecNet: one network request of this layer at a time, with its abort
   timer: request() of the API client (up to 3 attempts sharing one
   AbortController) and the fetch of backgroundAuthVerification. *)

netOnly == <<queueVars, store, today, now, serverLog, employeeDetails,
             isLoading, error, overlay, toast, memoRecord, memoStale, frame,
             mounted, tasks, cacheOut>>

\* The abort timer when attempt `attempt` of a request() ends while the timer
\* is `timer`: clearTimeout(timeoutId) in the try and in the catch; the timer
\* is created once, before the loop, and never again. TimerRearmed is a
\* request() that arms a new timer for the attempt that follows.
TimerRearmed(timer, retrying) == IF retrying THEN Some(ApiTimeout) ELSE None

TimerAfterAttempt(timer, retrying) == None

\* A request is in progress: reading the token, waiting for a response, or
\* waiting before its next attempt.
InProgress == net.pc \in {"token", "pending", "backoff"}

\* request(endpoint, options, useAuth): the AbortController and its 30 s
\* timer are set up; with useAuth getStoredToken is awaited, without it
\* (POST /login) the first fetch is sent at once.
StartRequest ==
    /\ ~InProgress
    /\ \E useAuth \in BOOLEAN :
        net' = [IdleRequest EXCEPT
                    !.kind = "api", !.useAuth = useAuth,
                    !.pc = IF useAuth THEN "token" ELSE "pending",
                    !.attempt = IF useAuth THEN 0 ELSE 1,
                    !.timer = Some(ApiTimeout)]
    /\ UNCHANGED <<netOnly, hasToken, auth>>

\* The next fetch of request() is sent: the first once the token is read,
\* a later one once the wait of attempt * 1000 ms is over.
SendAttempt ==
    /\ net.pc \in {"token", "backoff"}
    /\ net' = [net EXCEPT !.pc = "pending", !.attempt = @ + 1]
    /\ UNCHANGED <<netOnly, hasToken, auth>>

\* backgroundAuthVerification: one fetch with AbortSignal.timeout(5000).
StartVerification ==
    /\ ~InProgress
    /\ net' = [IdleRequest EXCEPT !.kind = "verify", !.pc = "pending",
                                  !.attempt = 1,
                                  !.timer = Some(VerifyTimeout)]
    /\ UNCHANGED <<netOnly, hasToken, auth>>

\* The armed timer fires: the signal is aborted, and the pending fetch will
\* reject with an AbortError.
TimerFires ==
    /\ InProgress
    /\ net.timer # None
    /\ net' = [net EXCEPT !.timer = None, !.aborted = TRUE]
    /\ UNCHANGED <<netOnly, hasToken, auth>>

\* How a fetch can end: as Outcomes, or rejected because its signal is
\* aborted (at once when it was aborted before the fetch was sent).
AttemptOutcomes(aborted) ==
    IF aborted THEN {"aborted"} ELSE {"ok", "httpErr", "http401", "netErr"}

\* An attempt of request() ends. 2xx resolves the request; 401 runs
\* clearAuthData and throws; anything else waits attempt seconds and sends
\* the next fetch with the same signal, or throws after the third attempt.
ApiAttemptEnds ==
    /\ net.pc = "pending"
    /\ net.kind = "api"
    /\ \E o \in AttemptOutcomes(net.aborted) :
        LET retrying == o \notin {"ok", "http401"}
                        /\ net.attempt < RetryAttempts
        IN  /\ net' = [net EXCEPT
                    !.log = Append(@, o),
                    !.timer = TimerAfterAttempt(@, retrying),
                    !.pc = IF retrying THEN "backoff" ELSE "settled",
                    !.result = IF o = "ok" THEN "resolved"
                               ELSE IF retrying THEN "none"
                               ELSE "thrown"]
            /\ hasToken' = (hasToken /\ o # "http401")
            /\ auth' = IF o = "http401"
                       THEN [auth EXCEPT !.storage = ClearAuthData(@)]
                       ELSE auth
    /\ UNCHANGED netOnly

\* The fetch of backgroundAuthVerification ends: response.ok, or true when
\* fetch throws (network error or abort).
VerifyAttemptEnds ==
    /\ net.pc = "pending"
    /\ net.kind = "verify"
    /\ \E o \in AttemptOutcomes(net.aborted) :
        net' = [net EXCEPT
                    !.log = Append(@, o),
                    !.timer = None,
                    !.pc = "settled",
                    !.result = IF o \in {"ok", "netErr", "aborted"}
                               THEN "true" ELSE "false"]
    /\ UNCHANGED <<netOnly, hasToken, auth>>

NextNet ==
    \/ StartRequest
    \/ StartVerification
    \/ SendAttempt
    \/ TimerFires
    \/ ApiAttemptEnds
    \/ VerifyAttemptEnds

SpecNet == Init /\ [][NextNet]_vars

\* The stored sessions getFastAuthState is applied to: any record or none
\* under willware_auth_cache, and a token and a profile, each there or not,
\* in the store storeAuthData writes to.
FastStamps == {0, 1}
FastNows == {CacheValidity - 1, CacheValidity, CacheValidity + 1}

FastRecords ==
    {None} \cup
    {Some(Stringify(AuthCache(ToUser(RawProfile(u)), k, ts, isValid))) :
        u \in Users, k \in Tokens, ts \in FastStamps, isValid \in BOOLEAN}

FastTokens == {None} \cup {Some(k) : k \in Tokens}
FastProfiles == {None} \cup {Some(Stringify(RawProfile(u))) : u \in Users}

FastStorage(secureOk, cache, token, user) ==
    [secureOk |-> secureOk,
     secure |-> IF secureOk THEN [token |-> token, user |-> user]
                ELSE EmptyArea,
     disk |-> [token |-> IF secureOk THEN None ELSE token,
               user |-> IF secureOk THEN None ELSE user,
               cache |-> cache]]

InitFast ==
    /\ today = 1
    /\ now \in FastNows
    /\ serverLog = << >>
    /\ hasToken = TRUE
    /\ store = [k \in StoreKeys |-> None]
    /\ employeeDetails = None
    /\ isLoading = TRUE
    /\ error = FALSE
    /\ overlay = FALSE
    /\ toast = "none"
    /\ memoRecord = None
    /\ memoStale = FALSE
    /\ frame = InitialFrame
    /\ mounted = FALSE
    /\ tasks = [t \in TaskIds |-> IdleTask]
    /\ cacheOut = NoCacheCall
    /\ QueueInit
    /\ net = IdleRequest
    /\ \E secureOk \in BOOLEAN, cache \in FastRecords, token \in FastTokens,
          user \in FastProfiles :
            auth = Launched(FastStorage(secureOk, cache, token, user))

NextFast == \E fault \in ReadFaults : InitializeAuthFastWith(fault)

SpecFast == InitFast /\ [][NextFast]_vars





-----------------------------------------------------------------------------
(* SpecDerive: the first render of the screen over every loaded timelog of  *)
(* at most MaxLog records and every date.                                   *)

FieldValues == {"", "t"}

DeriveRecords ==
    {DayRecord(FormatDate(d), cin, cout, cout) :
        d \in Days, cin \in FieldValues, cout \in FieldValues}

Timelogs == UNION {[1..n -> DeriveRecords] : n \in 0..MaxLog}

InitDerive ==
    /\ today \in Days
    /\ now = 0
    /\ serverLog = << >>
    /\ hasToken = TRUE
    /\ store = [k \in StoreKeys |-> None]
    /\ employeeDetails \in {Some(tl) : tl \in Timelogs}
    /\ isLoading = FALSE
    /\ error = FALSE
    /\ overlay = FALSE
    /\ toast = "none"
    /\ memoRecord = None
    /\ memoStale = TRUE
    /\ frame = InitialFrame
    /\ mounted = TRUE
    /\ tasks = [t \in TaskIds |-> IdleTask]
    /\ cacheOut = NoCacheCall
    /\ QueueInit
    /\ net = IdleRequest
    /\ auth = FreshInstall

NextDerive == Render

SpecDerive == InitDerive /\ [][NextDerive]_vars

-----------------------------------------------------------------------------
(* Properties of handleCheckInOut and the dashboard (Spec, SpecInval)       *)

\* r is a record the service has returned or can have returned in a timelog
\* response: a record of its log, or the checked-in stage of one.
ServerHadIn(log, r) ==
    \E i \in 1..Len(log) :
        \/ r = log[i]
        \/ r = DayRecord(log[i].date, log[i].checkin, "", "")

ServerHad(r) == ServerHadIn(serverLog, r)

ServerConfirmed(details) ==
    details # None => \A i \in 1..Len(details[1]) : ServerHad(details[1][i])

DisplayedFromServer ==
    /\ ServerConfirmed(employeeDetails)
    /\ memoRecord # None => ServerHad(memoRecord[1])
    /\ frame.rec # None => ServerHad(frame.rec[1])

\* What a screen showing NotStarted shows next: itself, the loading
\* placeholder, the error card of a re-fetch that failed, or a re-fetched
\* record with its check-in time.
FromNotStarted ==
    frame.card = "NotStarted" =>
        /\ frame'.card \in {"NotStarted", "loading", "error", "CheckedIn", "Completed"}
        /\ frame'.card \in {"CheckedIn", "Completed"} =>
               /\ Truthy(frame'.rec[1].checkin)
               /\ ServerHadIn(serverLog', frame'.rec[1])

CheckInOutTasks == {t \in TaskIds : tasks[t].kind = "checkinout"}

\* C2: at most one invocation of handleCheckInOut is in flight at any time.
C2_SingleFlight == Cardinality(CheckInOutTasks) <= 1

\* t's mutation is given up in this step (every retry failed)
GivesUp(t) ==
    /\ tasks[t].kind = "checkinout"
    /\ tasks[t].pc = "mutate"
    /\ tasks'[t] = IdleTask

\* t's mutation has an attempt end in this step without succeeding
FailedAttempt(t) ==
    /\ tasks[t].kind = "checkinout"
    /\ tasks[t].pc = "mutate"
    /\ tasks'[t] # tasks[t]
    /\ tasks'[t].pc # "remove"

FailureLeavesState ==
    \A t \in TaskIds :
        /\ FailedAttempt(t) =>
               /\ employeeDetails' = employeeDetails
               /\ memoRecord' = memoRecord
               /\ store' = store
               /\ isLoading' = isLoading
        /\ GivesUp(t) => toast' = "error"

Invalidates(t) ==
    /\ tasks[t].kind = "checkinout"
    /\ tasks[t].pc = "remove"
    /\ tasks'[t].pc = "outerGet"

\* C4: when the forced refresh after a successful mutation has done its
\* invalidation, no cache entry keyed by the employee's id is left (neither
\* the view entry nor the profile entry).
C4_AllEntriesInvalidated ==
    [][\A t \in TaskIds :
          Invalidates(t) => \A key \in CacheKeys : StoredItem(store', key) = None]_vars

\* t is a new invocation of handleCheckInOut, started in this step
Dispatches(t) ==
    /\ tasks[t].kind # "checkinout"
    /\ tasks'[t].kind = "checkinout"

DispatchMatchesState ==
    \A t \in TaskIds :
        Dispatches(t) =>
            /\ tasks'[t].action \in {"checkin", "checkout"}
            /\ tasks'[t].action = "checkin" => frame.card = "NotStarted"
            /\ tasks'[t].action = "checkout" => frame.card = "CheckedIn"

\* C5: an invocation of handleCheckInOut sends a check-in only from the
\* NotStarted state and a check-out only from the CheckedIn state of the
\* screen it was pressed on; from the Completed state nothing is sent.
C5_ActionFollowsState == [][DispatchMatchesState]_vars

\* a check-out was dispatched from the CheckedIn state
C5_Witness ==
    \E t \in TaskIds :
        /\ tasks[t].kind = "checkinout"
        /\ tasks[t].pc = "mutate"
        /\ tasks[t].action = "checkout"
        /\ frame.card = "CheckedIn"

\* C7: whenever the screen is rendered anew, the record it takes as today's
\* is the record of the current local date in the timelog it holds (none
\* when the timelog has no record of that date).
C7_RecordOfCurrentDate ==
    [][frame' # frame => frame'.rec = TodayAttendanceRecord(employeeDetails', today')]_vars

\* C8: one invocation of handleCheckInOut sends its request at most 2 times.
C8_AtMostTwoSends == \A t \in TaskIds : tasks[t].sent <= 2

\* an attempt of t's mutation is answered 401 in this step (the stored token
\* is cleared by it)
Rejected401(t) ==
    /\ tasks[t].kind = "checkinout"
    /\ tasks[t].pc = "mutate"
    /\ tasks'[t] # tasks[t]
    /\ hasToken
    /\ ~hasToken'

\* C9: a mutation that the service rejects with HTTP 401 is given up at that
\* attempt: the request is not sent again.
C9_RejectionNotRetried ==
    [][\A t \in TaskIds : Rejected401(t) => tasks'[t].pc # "mutate"]_vars

-----------------------------------------------------------------------------
(* Properties of the derivation of today's status (SpecDerive)              *)

\* the screen has been rendered over a loaded timelog
Rendered == employeeDetails # None /\ ~isLoading /\ ~memoStale /\ frame # InitialFrame

\* the positions of the timelog's records of today's date
TodayPositions ==
    {i \in 1..Len(employeeDetails[1]) :
        employeeDetails[1][i].date = FormatDate(today)}

\* the first of them
TodayFirst ==
    employeeDetails[1][CHOOSE i \in TodayPositions : \A j \in TodayPositions : i <= j]

StateIsDerived ==
    /\ frame.card = "NotStarted" <=> TodayPositions = {}
    /\ frame.card = "CheckedIn" <=>
           /\ TodayPositions # {}
           /\ TodayFirst.checkin # ""
           /\ TodayFirst.checkout = ""
    /\ frame.card = "Completed" <=>
           /\ TodayPositions # {}
           /\ TodayFirst.checkin # ""
           /\ TodayFirst.checkout # ""
    /\ CheckInOutPressable(frame) <=> frame.card \in {"NotStarted", "CheckedIn"}
    /\ frame.card = "NotStarted" => ActionOf(frame.rec) = "checkin"
    /\ frame.card = "CheckedIn" => ActionOf(frame.rec) = "checkout"

\* C6: for every timelog and date, the rendered state is NotStarted (button
\* enabled, checking in) iff the timelog has no record of today's date,
\* CheckedIn (button enabled, checking out) iff the first record of today's
\* date has a check-in and no check-out, and Completed (button disabled) iff
\* it has both.
C6_StateDerivedFromRecord == Rendered => StateIsDerived

\* a timelog whose record of today comes after a record of another date
C6_Witness ==
    /\ Rendered
    /\ frame.card = "Completed"
    /\ Len(employeeDetails[1]) = 2
    /\ employeeDetails[1][1].date # FormatDate(today)

-----------------------------------------------------------------------------
(* Properties of CacheManager.get (SpecCache)                               *)

\* the last cache call was a get of a key that had an entry
GotEntry == cacheOut.op = "get" /\ cacheOut.had # None

\* C10, as stated: a get returns the stored value iff it is made strictly
\* before the entry's expiry time.
C10_LiveStrictlyBeforeExpiry ==
    GotEntry => (cacheOut.value # None <=> cacheOut.at < cacheOut.had[1].expiryTime)

\* C10: a get made at or before the entry's expiry time returns the stored
\* value; a get made after it returns null and leaves no entry under the key.
C10_LiveUntilExpiry ==
    GotEntry =>
        /\ cacheOut.value # None <=> cacheOut.at <= cacheOut.had[1].expiryTime
        /\ cacheOut.value # None => cacheOut.value = Some(cacheOut.had[1].data)
        /\ cacheOut.value = None => StoredItem(store, cacheOut.key) = None

\* a get at the expiry instant itself
C10_Witness ==
    /\ GotEntry
    /\ cacheOut.at = cacheOut.had[1].expiryTime
    /\ cacheOut.value # None

-----------------------------------------------------------------------------
(* The cache manager: claims C11 to C16 *)

\* the value a get resolved with: null when it found no live entry
Resolved(value) == IF value = None THEN JsNull ELSE value[1]

\* a get of the key that the call before it, at the same instant, has set
SetThenGet ==
    /\ cacheOut.op = "set"
    /\ cacheOut'.op = "get"
    /\ cacheOut'.key = cacheOut.key
    /\ cacheOut'.at = cacheOut.at

\* C11: a get(k) made right after set(k, v) resolves with v, for every key,
\* value and prior content of the storage, a full cache included.
C11_SetThenGetRoundTrip ==
    [][SetThenGet => Resolved(cacheOut'.value) = cacheOut.value[1]]_vars

\* a set on a cache holding maxSize live entries, evicted by its own cleanup
C11_Witness ==
    /\ cacheOut.op = "set"
    /\ cacheOut.value # Some(JsNull)
    /\ StoredItem(store, cacheOut.key) = None

HadLiveEntry ==
    cacheOut.had # None /\ cacheOut.at <= cacheOut.had[1].expiryTime

\* C12: getOrSet calls computeFn zero times when the key holds an unexpired
\* entry, whatever the stored value, and exactly once otherwise.
C12_ComputeOnlyOnMiss ==
    cacheOut.op = "getOrSet" =>
        cacheOut.calls = (IF HadLiveEntry THEN 0 ELSE 1)

\* a getOrSet on a key whose live entry holds null
C12_Witness ==
    /\ cacheOut.op = "getOrSet"
    /\ HadLiveEntry
    /\ cacheOut.had[1].data = JsNull

CacheEntries(st) == {k \in DOMAIN st : StartsWithCache(k) /\ st[k] # None}

\* the last call has written an entry and run the cleanup
HasSet ==
    \/ cacheOut.op = "set"
    \/ cacheOut.op = "getOrSet" /\ cacheOut.calls = 1

\* C13: once a set has resolved, the storage holds no cache entry that had
\* expired when the set ran, and at most maxSize cache entries.
C13_CleanAndBoundedAfterSet ==
    HasSet =>
        /\ \A k \in CacheEntries(store) :
                ~(cacheOut.at > Parse(store[k][1]).expiryTime)
        /\ Cardinality(CacheEntries(store)) <= MaxSize

\* a set of a new key on a cache of maxSize entries: one was evicted
C13_Witness ==
    /\ HasSet
    /\ cacheOut.had = None
    /\ Cardinality(CacheEntries(store)) = MaxSize
    /\ \E i \in 1..MaxSize : store[GetCacheKey(PayslipKey(i))] = None

\* C16: every entry that set writes expires after the instant it was stored,
\* for every ttl the callers pass, an omitted or zero ttl included.
C16_ExpiresAfterStored ==
    \A k \in CacheEntries(store) :
        Parse(store[k][1]).expiryTime > Parse(store[k][1]).timestamp

\* an entry written with a ttl of zero
C16_Witness ==
    /\ cacheOut.op = "set"
    /\ cacheOut.ttl = 0
    /\ StoredItem(store, cacheOut.key) # None
    /\ StoredItem(store, cacheOut.key)[1].timestamp = cacheOut.at

\* the step is an invalidatePattern call
InvalidateStep == cacheOut'.op = "invalidatePattern" /\ cacheOut' # cacheOut

\* C15: invalidatePattern(s) removes the cache entries whose stored key
\* contains s and nothing else; invalidatePattern, clear and the cleanup run
\* by set never remove or change a key outside the cache namespace.
C15_OnlyMatchingCacheEntriesRemoved ==
    [][/\ InvalidateStep =>
            \A k \in DOMAIN store :
                store'[k] = IF StartsWithCache(k) /\ Includes(k, cacheOut'.key)
                            THEN None ELSE store[k]
       /\ \A k \in DOMAIN store : ~StartsWithCache(k) => store'[k] = store[k]]_vars

\* the employee view entry was invalidated by its key family; payslip entries
\* and the offline queue are still there
C15_Witness ==
    /\ cacheOut.op = "invalidatePattern"
    /\ cacheOut.key = <<"employee_view_">>
    /\ cacheOut.had # None
    /\ StoredItem(store, ViewKey) = None
    /\ StoredItem(store, PayslipKey(2)) # None
    /\ store[OfflineKey] # None

\* the read of the last call failed: getItem threw, or the text under the key
\* was not a serialized CacheItem
ReadFailed ==
    \/ cacheOut.io = "getItem"
    \/ cacheOut.stored # None /\ Corrupted(cacheOut.stored[1])

\* the write of the last call failed: it called setItem, which threw
WriteFailed == cacheOut.io = "setItem" /\ cacheOut.calls = 1

\* C14: the cache fails open. When a storage call throws or the stored entry
\* is corrupted, no cache call raises, get resolves with null, and getOrSet
\* resolves with what computeFn returned.
C14_FailsOpen ==
    /\ cacheOut.op # "none" => cacheOut.kind # "raised"
    /\ cacheOut.op = "get" /\ ReadFailed => cacheOut.kind = "null"
    /\ cacheOut.op = "getOrSet" /\ (ReadFailed \/ WriteFailed) =>
            /\ cacheOut.kind = "value"
            /\ cacheOut.value = cacheOut.fetched
            /\ cacheOut.calls = 1

\* C14 for the faults that the cache does survive: a storage call that throws,
\* text that JSON.parse rejects, and the JSON text null.
C14_FailsOpenOnThrow ==
    /\ cacheOut.op # "none" => cacheOut.kind # "raised"
    /\ cacheOut.op \in {"get", "getOrSet"}
            /\ (cacheOut.stored = None \/ cacheOut.stored[1] # WrongShape) =>
        /\ cacheOut.op = "get" /\ ReadFailed => cacheOut.kind = "null"
        /\ cacheOut.op = "getOrSet" /\ (ReadFailed \/ WriteFailed) =>
                /\ cacheOut.kind = "value"
                /\ cacheOut.value = cacheOut.fetched
                /\ cacheOut.calls = 1

\* a get of a key whose stored text is JSON of another shape
C14_Witness ==
    /\ cacheOut.op = "get"
    /\ cacheOut.io = "none"
    /\ cacheOut.stored = Some(WrongShape)

-----------------------------------------------------------------------------
(* The offline queue: claims C17 to C20 *)

\* the loop of the running pass ends with this step
LoopEnds == pass.pc = "exec" /\ pass'.pc = "save"

\* the items whose failure in this pass was their maxRetries-th
Exhausted(p) ==
    {p.items[k].id : k \in {j \in 1..Len(p.items) :
                                p.items[j].retryCount >= QueueMaxRetries}}

\* C17: the executor is invoked at most 3 times for an item, whatever passes
\* are run; an item whose 3rd attempt failed is gone from the in-memory and
\* the durable queue when the loop of that pass has ended.
C17_AtMostThreeAttempts ==
    /\ [](\A id \in 1..MaxItems : execLog.count[id] <= QueueMaxRetries)
    /\ [][LoopEnds =>
            \A id \in Exhausted(pass') :
                /\ ~InSeq(id, ItemIds(queue'))
                /\ ~InSeq(id, ItemIds(DurableQueue(store')))]_vars

\* the 3rd attempt of item 1 has failed and the loop of that pass has ended
C17_Witness ==
    /\ pass.pc = "save"
    /\ execLog.count[1] = QueueMaxRetries
    /\ 1 \in Exhausted(pass)
    /\ ~InSeq(1, ItemIds(queue))
    /\ ~InSeq(1, ItemIds(DurableQueue(store)))

AllSucceeded(p) == \A k \in 1..Len(p.results) : p.results[k]

\* the pass resolves with this step
PassCompletes == pass.pc = "save" /\ pass'.pc = "idle"

\* C18: when a pass in which every executor call succeeded has completed and
\* nothing was enqueued meanwhile, the queue's length is 0 and the durable
\* queue is the empty list.
C18_DrainedAfterSuccessfulPass ==
    [][PassCompletes /\ AllSucceeded(pass) /\ execLog.enqueued = pass.enqueued =>
            /\ Len(queue') = 0
            /\ store'[OfflineKey] # None
            /\ DurableQueue(store') = << >>]_vars

\* two mutations were enqueued, one pass sent both and has completed
C18_Witness ==
    /\ execLog.last = "ended"
    /\ execLog.enqueued = 2
    /\ execLog.count[1] = 1
    /\ execLog.count[2] = 1
    /\ execLog.order = <<1, 2>>
    /\ queue = << >>
    /\ DurableQueue(store) = << >>

\* C19: in one pass the executor is invoked once for each item that was in
\* the queue when the pass started, in enqueue order; each of these items is
\* removed when it succeeded or failed for the 3rd time and is otherwise kept
\* with its retryCount one higher, whatever happened to the other items.
C19_EachItemOnceInOrder ==
    [][LoopEnds =>
            /\ execLog'.order = ItemIds(pass'.items)
            /\ SubSeq(execLog'.order, 1, Len(pass.start)) = ItemIds(pass.start)
            /\ \A j, k \in 1..Len(execLog'.order) :
                    execLog'.order[j] = execLog'.order[k] => j = k
            /\ \A k \in 1..Len(pass.start) :
                    IF pass'.results[k]
                       \/ pass.start[k].retryCount + 1 >= QueueMaxRetries
                    THEN ~InSeq(pass.start[k].id, ItemIds(queue'))
                    ELSE InSeq(Retried(pass.start[k]), queue')]_vars

\* a pass over two items whose first item failed and whose second succeeded
C19_Witness ==
    /\ pass.pc = "save"
    /\ Len(pass.start) = 2
    /\ pass.results = <<FALSE, TRUE>>
    /\ ItemIds(queue) = <<1>>

\* the step is a call of processQueue
CallStep == execLog'.last \in {"started", "skipped"} /\ execLog' # execLog

\* C20: a processQueue called while a pass is running returns without
\* calling the executor and without touching that pass; the flag is set
\* exactly while a pass is running, so it is released whenever a pass ends.
C20_SinglePass ==
    /\ [][isProcessing /\ CallStep =>
            /\ execLog'.count = execLog.count
            /\ pass' = pass
            /\ execLog'.last = "skipped"]_vars
    /\ [](isProcessing <=> pass.pc # "idle")

\* processQueue was called during a pass and returned at once
C20_Witness ==
    /\ execLog.last = "skipped"
    /\ isProcessing
    /\ pass.pc = "exec"

-----------------------------------------------------------------------------
(* The offline queue under its hook: claims C21 to C23 *)

\* no queue operation is in progress: the manager is initialized, no load is
\* pending and no pass is running
QueueAtRest == hook.mounted /\ hook.loading = None /\ pass.pc = "idle"

\* C21: whenever no queue operation is in progress, the stored queue equals
\* the in-memory queue: same items, same order, same retryCount.
C21_DurableMirrorsMemory ==
    QueueAtRest => DurableQueue(store) = queue

\* the queue is at rest with an item in memory that storage does not hold
C21_Witness ==
    /\ QueueAtRest
    /\ \E k \in 1..Len(queue) : ~InSeq(queue[k].id, ItemIds(DurableQueue(store)))

\* connectivity, as the hook sees it, goes from offline to online
BecomesOnline == hook.mounted /\ ~hook.online /\ hook'.online

\* the start of the app has finished (the stored queue is loaded) while the
\* device is online
StartedOnline ==
    /\ hook.loading # None
    /\ hook'.mounted
    /\ hook'.loading = None
    /\ hook.online
    /\ hook.device

\* C22: when connectivity goes from offline to online, and when the app has
\* started while online, a pass is running over the pending items, those
\* stored by an earlier session included.
C22_PassStartedWhenOnline ==
    [][(BecomesOnline \/ StartedOnline) /\ DurableQueue(store') # << >> =>
            /\ isProcessing'
            /\ pass'.pc # "idle"]_vars

\* the app has started online with a stored item and no pass is running
C22_Witness ==
    /\ execLog.last = "initialized"
    /\ hook.online
    /\ hook.device
    /\ queue # << >>
    /\ ~isProcessing

\* A check-in/out the home screen gives up on while the device is
\* disconnected.
GivesUpOffline == ~hook.device /\ \E t \in TaskIds : GivesUp(t)

\* C23: a check-in/out issued while the device is disconnected is appended
\* to the offline mutation queue: the step in which the handler gives the
\* request up leaves the queue one item longer.
C23_OfflineMutationQueued ==
    [][GivesUpOffline => Len(queue') = Len(queue) + 1]_vars

\* A check-in/out was given up on a disconnected device: the handler has
\* shown its error.
C23_Witness ==
    /\ ~hook.device
    /\ toast = "error"
    /\ \A t \in TaskIds : tasks[t].kind = "idle"

\* getFastAuthState has been called, and what it was called with and gave.
FastCalled == auth.fast # None
FastFault == auth.fast[1].fault
FastResult == auth.fast[1].result

\* The identity cache record in the store, and whether it is trusted and
\* less than 24 hours old now.
HasRecord == auth.storage.disk.cache # None
StoredRecord == Parse(auth.storage.disk.cache[1])
FreshRecord ==
    /\ HasRecord
    /\ StoredRecord.isValid
    /\ now - StoredRecord.timestamp < CacheValidity

\* C24: when the record can be read, getFastAuthState answers authenticated
\* with shouldVerify false exactly when a trusted record less than 24 hours
\* old is stored; it then returns the record's user and token, and the
\* launch starts no verification request.
C24_FreshRecordSkipsVerification ==
    FastCalled /\ FastFault # "cache" =>
        /\ (FastResult.isAuthenticated /\ ~FastResult.shouldVerify)
                <=> FreshRecord
        /\ FreshRecord =>
                /\ FastResult.user = Some(StoredRecord.user)
                /\ FastResult.token = Some(StoredRecord.token)
                /\ auth.launch.pc = "done"

\* The call found a trusted record one minute short of 24 hours old.
C24_Witness ==
    /\ FastCalled
    /\ FreshRecord
    /\ now - StoredRecord.timestamp = CacheValidity - 1
    /\ FastResult.isAuthenticated
    /\ ~FastResult.shouldVerify

\* A token and a raw profile are stored, in either store.
TokenStored ==
    auth.storage.secure.token # None \/ auth.storage.disk.token # None
ProfileStored ==
    auth.storage.secure.user # None \/ auth.storage.disk.user # None
StoredToken ==
    IF auth.storage.secure.token # None THEN auth.storage.secure.token
    ELSE auth.storage.disk.token
StoredProfile ==
    Parse(IF auth.storage.secure.user # None THEN auth.storage.secure.user[1]
          ELSE auth.storage.disk.user[1])

ReadThrew ==
    \/ FastFault = "cache"
    \/ FastFault \in {"token", "user"} /\ ~FreshRecord

\* C26: getFastAuthState resolves with a result whatever read throws, and the
\* result is the not-authenticated one whenever a read threw.
C26_ReadFailureMeansNotAuthenticated ==
    FastCalled =>
        /\ FastResult.isAuthenticated \in BOOLEAN
        /\ ReadThrew => FastResult = NotAuthenticated

\* The read of the record threw and the call answered authenticated.
C26_Witness ==
    /\ FastCalled
    /\ FastFault = "cache"
    /\ FastResult.isAuthenticated

\* The launch's background verification, once it has resolved.
Verified == auth.verified # None
Verification == auth.verified[1]

\* C27: backgroundAuthVerification returns true when the service accepts the
\* token and when the request fails by network error or timeout, and false
\* only when the service answers 401.
C27_FalseOnlyOnUnauthorized ==
    Verified =>
        /\ Verification.outcome \in {"ok", "netErr"} => Verification.isValid
        /\ ~Verification.isValid => Verification.outcome = "http401"

\* The service answered with an HTTP error other than 401 and the
\* verification returned false.
C27_Witness ==
    /\ Verified
    /\ Verification.outcome = "httpErr"
    /\ ~Verification.isValid

\* The step in which the launch's verification resolves, with true or false,
\* and the step in which the logout it started completes.
VerifiesTrue ==
    /\ auth.launch.pc = "verify"
    /\ auth'.verified # None
    /\ auth'.verified[1].isValid
VerifiesFalse ==
    /\ auth.launch.pc = "verify"
    /\ auth'.verified # None
    /\ ~auth'.verified[1].isValid
LaunchLogoutCompletes ==
    /\ auth.launch.pc = "clearCache"
    /\ auth'.last = "logout"

\* Nothing of a session is left in `a` at time t: no token, no profile, no
\* record, authState not authenticated, getFastAuthState not authenticated.
SessionGone(a, t) ==
    /\ a.storage.secure = EmptyArea
    /\ a.storage.disk = [token |-> None, user |-> None, cache |-> None]
    /\ a.state = LoggedOut
    /\ GetFastAuthState(a.storage, t, "none") = NotAuthenticated

\* C28: when the verification started at launch returns false, logout runs:
\* it is started at once, and when it completes the token, the profile and
\* the record are gone, authState is not authenticated and getFastAuthState
\* answers not authenticated.
C28_RejectedSessionInvalidated ==
    [][/\ VerifiesFalse => auth'.launch.pc = "logout"
       /\ LaunchLogoutCompletes => SessionGone(auth', now')]_vars

\* The verification returned false and the logout it started has completed.
C28_Witness ==
    /\ Verified
    /\ ~Verification.isValid
    /\ auth.launch.pc = "done"
    /\ auth.last = "logout"

\* The record in `a` was written at time t, trusted, so that
\* getFastAuthState asks for no verification.
Refreshed(a, t) ==
    /\ a.storage.disk.cache # None
    /\ Parse(a.storage.disk.cache[1]).timestamp = t
    /\ Parse(a.storage.disk.cache[1]).isValid
    /\ ~GetFastAuthState(a.storage, t, "none").shouldVerify

\* C29: when the verification started at launch returns true, the record is
\* rewritten with the current time and trusted, and the next getFastAuthState
\* asks for no verification.
C29_VerifiedSessionRefreshed ==
    [][VerifiesTrue => Refreshed(auth', now')]_vars

\* The verification returned true and getFastAuthState still asks for one.
C29_Witness ==
    /\ Verified
    /\ Verification.isValid
    /\ auth.last = "verified"
    /\ GetFastAuthState(auth.storage, now, "none").shouldVerify

\* The steps in which a login fails and in which a logout completes.
LoginFails == auth.user.pc = "post" /\ auth'.last = "loginFailed"
LogoutCompletes ==
    /\ \E f \in {"launch", "user"} : auth[f].pc = "clearCache"
    /\ auth'.last = "logout"

\* In `a` at time t: the record is there only if a login has succeeded, and
\* while the session of a completed login is less than 24 hours old
\* getFastAuthState answers with its user and token and shouldVerify false.
SessionKept(a, t) ==
    /\ a.storage.disk.cache # None => a.everLoggedIn
    /\ a.session # None /\ t - a.session[1].at < CacheValidity =>
            GetFastAuthState(a.storage, t, "none") =
                [isAuthenticated |-> TRUE, user |-> a.session[1].user,
                 token |-> a.session[1].token, shouldVerify |-> FALSE]

\* C30: over logins, logouts and relaunches, a record exists only after a
\* successful login and a failed login stores nothing; after a completed
\* login getFastAuthState answers with that user and token and shouldVerify
\* false; when a logout completes no record and no credentials are stored and
\* getFastAuthState answers not authenticated.
C30_RecordFollowsLoginAndLogout ==
    [][/\ SessionKept(auth', now')
       /\ LoginFails =>
            /\ auth'.storage.disk.cache = auth.storage.disk.cache
            /\ auth'.storage.secure = EmptyArea
            /\ auth'.storage.disk.token = None
            /\ auth'.storage.disk.user = None
       /\ LogoutCompletes => SessionGone(auth', now')]_vars

\* After a login and a relaunch getFastAuthState answered with the session's
\* token and asked for no verification.
C30_Witness ==
    /\ auth.session # None
    /\ auth.launches > 0
    /\ FastCalled
    /\ FastResult.token = auth.session[1].token
    /\ ~FastResult.shouldVerify

\* C31: at launch the loading flag is false once getFastAuthState has
\* resolved, whether or not the background verification ever completes: while
\* the verification is pending the screen is already routed, and every launch
\* leads to a routed screen without any step of the verification.
C31_LoadingEndsBeforeVerification ==
    /\ [](auth.launch.pc = "verify" => Screen(auth.state) # "pending")
    /\ (auth.launch.pc = "fast" ~> Screen(auth.state) # "pending")

\* The verification request is pending and the tabs are shown.
C31_Witness ==
    /\ auth.launch.pc = "verify"
    /\ auth.verified = None
    /\ Screen(auth.state) = "tabs"

\* The step in which an authenticated API call is answered with 401.
Rejected == auth.last # "rejected" /\ auth'.last = "rejected"

\* C32: when the service answers an authenticated API call with 401 the
\* session ends: token, profile and record are removed and authState is not
\* authenticated, so getFastAuthState no longer answers authenticated.
C32_UnauthorizedEndsSession ==
    [][Rejected => SessionGone(auth', now')]_vars

\* After a 401 the tabs are still shown and the record is still stored.
C32_Witness ==
    /\ auth.last = "rejected"
    /\ Screen(auth.state) = "tabs"
    /\ HasRecord
    /\ GetFastAuthState(auth.storage, now, "none").isAuthenticated

\* C33: every attempt that is pending has an armed timeout, of 30 s for a
\* request of the API client (its 2nd and 3rd attempts included) and of 5 s
\* for the background verification.
C33_PendingAttemptHasTimeout ==
    net.pc = "pending" /\ ~net.aborted =>
        net.timer = Some(IF net.kind = "api" THEN ApiTimeout
                         ELSE VerifyTimeout)

\* The second attempt of a request is pending, after a first attempt that
\* failed by a network error, and no timer is armed.
C33_Witness ==
    /\ net.kind = "api"
    /\ net.pc = "pending"
    /\ net.attempt = 2
    /\ net.log = <<"netErr">>
    /\ net.timer = None

\* A step in which a call writes an entry and runs the cleanup, and the
\* entries that survive the expiry deletion of that cleanup: the one written
\* and those that have not expired.
SetStep == cacheOut' # cacheOut /\ HasSet'
Surviving ==
    {GetCacheKey(cacheOut'.key)} \cup
    {k \in CacheEntries(store) : ~(now > Parse(store[k][1]).expiryTime)}
Evicted == Surviving \ CacheEntries(store')
InsertedAt(k) ==
    IF k = GetCacheKey(cacheOut'.key) THEN now
    ELSE Parse(store[k][1]).timestamp

\* C34: the cleanup of a set evicts for size only when more than maxSize
\* entries survive the expiry deletion; it then removes exactly the excess,
\* oldest-inserted first; with at most maxSize survivors it removes no
\* unexpired entry.
C34_EvictsOnlyExcessOldestFirst ==
    [][SetStep =>
        IF Cardinality(Surviving) <= MaxSize
        THEN Evicted = {}
        ELSE /\ Cardinality(Evicted) = Cardinality(Surviving) - MaxSize
             /\ \A e \in Evicted, k \in Surviving \ Evicted :
                    InsertedAt(e) <= InsertedAt(k)]_vars

\* A set on a cache whose expired entry left exactly maxSize survivors has
\* removed an unexpired entry.
C34_Witness ==
    /\ HasSet
    /\ cacheOut.at = MaxTime
    /\ Cardinality(CacheEntries(store)) = MaxSize - 1

-----------------------------------------------------------------------------
(* SpecRace: two callers of the cache manager whose calls interleave at the
   awaits of get, set and cleanupExpiredItems.  Each step is one AsyncStorage
   operation together with the synchronous code that follows it; cacheOut
   holds the two calls in flight. *)

Callers == 1..2

IdleCall ==
    [op |-> "none", pc |-> "idle", key |-> ViewKey, data |-> << >>,
     seen |-> None, deleted |-> None, scan |-> << >>, value |-> None]

\* get: `const cached = await AsyncStorage.getItem(cacheKey)`, then the
\* expiry test on what was read
GetRead(c, key) ==
    /\ cacheOut[c].pc = "idle"
    /\ LET cached == store[GetCacheKey(key)]
           live   == cached # None /\ ~Expired(Parse(cached[1]), now)
       IN  cacheOut' = [cacheOut EXCEPT ![c] =
                [IdleCall EXCEPT !.op = "get", !.key = key, !.seen = cached,
                    !.pc = IF cached # None /\ ~live THEN "remove" ELSE "idle",
                    !.value = IF live THEN Some(Parse(cached[1]).data) ELSE None]]
    /\ UNCHANGED <<net, auth, queueVars, store, today, now, serverLog, hasToken,
                   employeeDetails, isLoading, error, overlay, toast,
                   memoRecord, memoStale, frame, mounted, tasks>>

\* get: `await this.remove(key)` of the key whose entry was read as expired
GetRemove(c) ==
    /\ cacheOut[c].op = "get"
    /\ cacheOut[c].pc = "remove"
    /\ store' = CacheRemove(store, cacheOut[c].key)
    /\ cacheOut' = [cacheOut EXCEPT ![c].pc = "idle",
                        ![c].deleted = store[GetCacheKey(cacheOut[c].key)]]
    /\ UNCHANGED <<net, auth, queueVars, today, now, serverLog, hasToken,
                   employeeDetails, isLoading, error, overlay, toast,
                   memoRecord, memoStale, frame, mounted, tasks>>

\* set: `await AsyncStorage.setItem(cacheKey, JSON.stringify(item))`
SetWrite(c, key, data) ==
    /\ cacheOut[c].pc = "idle"
    /\ store' = [store EXCEPT ![GetCacheKey(key)] =
                    Some(Stringify(CacheItem(data, now, ExpiryOf(ViewTTL, now))))]
    /\ cacheOut' = [cacheOut EXCEPT ![c] =
            [IdleCall EXCEPT !.op = "set", !.key = key, !.data = data, !.pc = "keys"]]
    /\ UNCHANGED <<net, auth, queueVars, today, now, serverLog, hasToken,
                   employeeDetails, isLoading, error, overlay, toast,
                   memoRecord, memoStale, frame, mounted, tasks>>

\* cleanupExpiredItems: `await AsyncStorage.getAllKeys()` and the prefix filter
ScanKeys(c) ==
    /\ cacheOut[c].pc = "keys"
    /\ cacheOut' = [cacheOut EXCEPT ![c].pc = "scan",
                        ![c].scan = SelectSeq(GetAllKeys(store), StartsWithCache)]
    /\ UNCHANGED <<net, auth, queueVars, store, today, now, serverLog, hasToken,
                   employeeDetails, isLoading, error, overlay, toast,
                   memoRecord, memoStale, frame, mounted, tasks>>

\* cleanupExpiredItems: `await AsyncStorage.getItem(key)` of the next key and
\* the expiry test; the set resolves when the loop has passed the last key
ScanRead(c) ==
    /\ cacheOut[c].pc = "scan"
    /\ IF cacheOut[c].scan = << >>
       THEN cacheOut' = [cacheOut EXCEPT ![c].pc = "idle"]
       ELSE LET cached == store[Head(cacheOut[c].scan)]
            IN  IF cached # None /\ Expired(Parse(cached[1]), now)
                THEN cacheOut' = [cacheOut EXCEPT ![c].pc = "scanRemove",
                                                  ![c].seen = cached]
                ELSE cacheOut' = [cacheOut EXCEPT ![c].scan = Tail(@)]
    /\ UNCHANGED <<net, auth, queueVars, store, today, now, serverLog, hasToken,
                   employeeDetails, isLoading, error, overlay, toast,
                   memoRecord, memoStale, frame, mounted, tasks>>

\* cleanupExpiredItems: `await AsyncStorage.removeItem(key)` of the key whose
\* entry was read as expired
ScanRemove(c) ==
    /\ cacheOut[c].pc = "scanRemove"
    /\ store' = RemoveItem(store, Head(cacheOut[c].scan))
    /\ cacheOut' = [cacheOut EXCEPT ![c].pc = "scan", ![c].scan = Tail(@),
                        ![c].deleted = store[Head(cacheOut[c].scan)]]
    /\ UNCHANGED <<net, auth, queueVars, today, now, serverLog, hasToken,
                   employeeDetails, isLoading, error, overlay, toast,
                   memoRecord, memoStale, frame, mounted, tasks>>

InitRace ==
    /\ today = 1
    /\ now = 0
    /\ serverLog = << >>
    /\ hasToken = TRUE
    /\ store = [k \in StoreKeys |-> None]
    /\ employeeDetails = None
    /\ isLoading = TRUE
    /\ error = FALSE
    /\ overlay = FALSE
    /\ toast = "none"
    /\ memoRecord = None
    /\ memoStale = FALSE
    /\ frame = InitialFrame
    /\ mounted = FALSE
    /\ tasks = [t \in TaskIds |-> IdleTask]
    /\ cacheOut = [c \in Callers |-> IdleCall]
    /\ QueueInit
    /\ net = IdleRequest
    /\ auth = FreshInstall

NextRace ==
    \/ Tick
    \/ \E c \in Callers, key \in CacheKeys : GetRead(c, key)
    \/ \E c \in Callers : GetRemove(c)
    \/ \E c \in Callers, key \in CacheKeys, data \in CacheData :
            SetWrite(c, key, data)
    \/ \E c \in Callers : ScanKeys(c)
    \/ \E c \in Callers : ScanRead(c)
    \/ \E c \in Callers : ScanRemove(c)

SpecRace == InitRace /\ [][NextRace]_vars

\* C35: a get, or the cleanup scan of a set, that read an expired entry never
\* deletes an entry that has not expired: every entry that leaves the storage
\* while calls on its key interleave (no remove, no clear, no eviction for
\* size happens here) is expired when it is deleted.
C35_ExpiryDeleteSparesFreshEntry ==
    [][\A k \in CacheEntries(store) :
            store'[k] = None => Expired(Parse(store[k][1]), now)]_vars

\* a call has read an expired entry and then deleted the unexpired entry that
\* another caller's set wrote under the key in between
C35_Witness ==
    \E c \in Callers :
        /\ cacheOut[c].pc = "idle"
        /\ cacheOut[c].seen # None
        /\ cacheOut[c].deleted # None
        /\ cacheOut[c].deleted # cacheOut[c].seen
        /\ ~Expired(Parse(cacheOut[c].deleted[1]), now)
        /\ store[GetCacheKey(cacheOut[c].key)] = None

-----------------------------------------------------------------------------
(* SpecCompute: getOrSet with a computeFn that resolves or rejects *)

\* what `await fetchFn()` does: resolves with a body, or rejects
Computes == {[rejects |-> TRUE, data |-> JsNull]}
                \cup {[rejects |-> FALSE, data |-> d] : d \in Fetched}

\* A getOrSet that catches the rejection and caches null in its place.
GetOrSetSwallowing(st, key, compute, ttl, t) ==
    LET cached == CacheGet(st, key, t)
        st1    == CacheGetStore(st, key, t)
    IN  IF cached # JsNull
        THEN [store |-> st1, threw |-> FALSE, calls |-> 0, value |-> cached]
        ELSE [store |-> CacheSet(st1, key, compute.data, ttl, t),
              threw |-> FALSE, calls |-> 1, value |-> compute.data]

\* getOrSet: `await this.get(key)`, a hit returns; otherwise
\* `const data = await fetchFn()` outside any try block, so a rejection leaves
\* the function there; otherwise `await this.set(key, data, ttlMs)`
GetOrSetRun(st, key, compute, ttl, t) ==
    LET cached == CacheGet(st, key, t)
        st1    == CacheGetStore(st, key, t)
    IN  IF cached # JsNull
        THEN [store |-> st1, threw |-> FALSE, calls |-> 0, value |-> cached]
        ELSE IF compute.rejects
        THEN [store |-> st1, threw |-> TRUE, calls |-> 1, value |-> JsNull]
        ELSE [store |-> CacheSet(st1, key, compute.data, ttl, t),
              threw |-> FALSE, calls |-> 1, value |-> compute.data]

\* getEmployeeView: getOrSet under the employee view key with the one minute
\* ttl; what getOrSet throws is rethrown as ApiError
GetEmployeeViewCall(compute) ==
    LET run == GetOrSetRun(store, ViewKey, compute, ViewTTL, now)
    IN  /\ store' = run.store
        /\ cacheOut' = [op |-> "getOrSet", key |-> ViewKey, at |-> now,
                        value |-> run.value, had |-> StoredItem(store, ViewKey),
                        calls |-> run.calls, ttl |-> ViewTTL,
                        rejected |-> run.calls = 1 /\ compute.rejects,
                        threw |-> IF run.threw THEN "ApiError" ELSE "none"]
        /\ UNCHANGED <<net, auth, queueVars, today, now, serverLog, hasToken,
                       employeeDetails, isLoading, error, overlay, toast,
                       memoRecord, memoStale, frame, mounted, tasks>>

NextCompute ==
    \/ Tick
    \/ \E key \in CacheKeys, data \in Fetched \cup {JsNull}, ttl \in CacheTtls :
            CacheSetCall(key, data, ttl)
    \/ \E compute \in Computes : GetEmployeeViewCall(compute)

SpecCompute == Init /\ [][NextCompute]_vars

\* a getOrSet call whose computeFn has rejected
ComputeFailed ==
    /\ cacheOut' # cacheOut
    /\ cacheOut'.op = "getOrSet"
    /\ cacheOut'.rejected

\* C36: when computeFn rejects inside getOrSet the caller receives the
\* failure and nothing is written: every key holds what it held, except that
\* an expired entry under the key is gone, so the key has no live entry and a
\* getOrSet for the key that follows calls computeFn again.
C36_FailedComputeWritesNothing ==
    [][ComputeFailed =>
            /\ cacheOut'.threw # "none"
            /\ \A k \in DOMAIN store :
                    \/ store'[k] = store[k]
                    \/ /\ k = GetCacheKey(cacheOut'.key)
                       /\ store'[k] = None
                       /\ Expired(Parse(store[k][1]), now)
            /\ CacheGet(store', cacheOut'.key, now') = JsNull
            /\ \A compute \in Computes :
                    GetOrSetRun(store', cacheOut'.key, compute, ViewTTL, now').calls = 1
      ]_vars

\* computeFn has rejected in a call that found an expired entry under the key
\* while another key holds an entry
C36_Witness ==
    /\ cacheOut.op = "getOrSet"
    /\ cacheOut.rejected
    /\ cacheOut.threw = "ApiError"
    /\ cacheOut.had # None
    /\ store[GetCacheKey(ViewKey)] = None
    /\ store[GetCacheKey(ProfileKey)] # None

-----------------------------------------------------------------------------
(* The offline queue reloaded or cleared during a pass: claims C37, C38 *)

\* the executor is called for item id with this step
Invoked(id) == execLog'.count[id] > execLog.count[id]

\* C37: the executor is never called for an item for which an earlier call
\* of the executor has succeeded, whether in the same pass, in a later pass or
\* after the queue was reloaded from the durable storage during the pass.
C37_SucceededNeverRunsAgain ==
    [][\A id \in 1..MaxItems : Invoked(id) => id \notin execLog.succeeded]_vars

\* the executor succeeded for item 1, the queue was reloaded before that
\* pass had saved it, and the executor has been called for item 1 again
C37_Witness ==
    /\ 1 \in execLog.succeeded
    /\ execLog.reloads = 1
    /\ execLog.count[1] = 2
    /\ pass.pc = "exec"
    /\ pass.items[pass.i].id = 1
    /\ pass.items[pass.i].retryCount = 0

\* C38: after a clearQueue() called during a pass has resolved, the executor
\* is not called for any item that was queued before it; and when that pass
\* completes with nothing enqueued since the clear, this.queue and the durable
\* queue are empty.
C38_ClearStopsRunningPass ==
    /\ [][\A id \in 1..MaxItems : Invoked(id) => id \notin execLog.cleared]_vars
    /\ [][PassCompletes /\ execLog.clearedAt = Some(execLog.enqueued) =>
            /\ queue' = << >>
            /\ DurableQueue(store') = << >>]_vars

\* both queued items were cleared while the pass awaited the executor call for
\* item 1, and the pass has gone on to call the executor for item 2
C38_Witness ==
    /\ execLog.cleared = {1, 2}
    /\ execLog.order = <<1, 2>>
    /\ pass.pc = "exec"
    /\ ~pass.shared
    /\ queue = << >>
    /\ store[OfflineKey] = None

\* the two parts of C38 taken apart
C38_NoCallAfterClear ==
    [][\A id \in 1..MaxItems : Invoked(id) => id \notin execLog.cleared]_vars
C38_EmptyWhenPassEnds ==
    [][PassCompletes /\ execLog.clearedAt = Some(execLog.enqueued) =>
            /\ queue' = << >>
            /\ DurableQueue(store') = << >>]_vars

-----------------------------------------------------------------------------
(* Logging in again during the launch's verification: claim C39 *)

\* `a` holds a session that is not the one the launch verifies: authState is
\* authenticated with a token other than the token getFastAuthState returned,
\* and that token is the stored one.
NewSession(a) ==
    /\ a.fast # None
    /\ a.state.isAuthenticated
    /\ a.state.token # None
    /\ a.state.token # a.fast[1].result.token
    /\ GetStoredToken(a.storage, "none") = a.state.token

\* a step of verifyAuthInBackground: the verification resolves, or the logout
\* it called goes on
VerificationStep ==
    /\ auth.launch.pc \in {"verify", "logout", "clearCache"}
    /\ auth'.launches = auth.launches
    /\ auth'.launch # auth.launch

\* C39: the result of the launch's verification does not touch a session the
\* user has logged in to since, with another token: no step of
\* verifyAuthInBackground changes authState, the stored credentials or the
\* record of that session.
C39_VerificationLeavesNewSession ==
    [][VerificationStep /\ NewSession(auth) =>
            /\ auth'.state = auth.state
            /\ auth'.storage = auth.storage]_vars

\* the verification of t1 was answered 401 after the user had logged out and
\* in again with t2, and the logout it called has cleared the credentials
C39_Witness ==
    /\ auth.fast # None
    /\ auth.fast[1].result.token = Some("t1")
    /\ Verified
    /\ Verification.outcome = "http401"
    /\ auth.launch.pc = "clearCache"
    /\ auth.user.pc = "idle"
    /\ auth.state.token = Some("t2")
    /\ GetStoredToken(auth.storage, "none") = None

-----------------------------------------------------------------------------
(* The re-fetch after a check-in / check-out or a manual refresh: claim C40 *)

\* the GET /view/{id} of a manual or forced refresh fails with this step and
\* preloadDashboardData settles
RefetchFails ==
    \E t \in TaskIds :
        /\ tasks[t].pc = "fetch"
        /\ IsManual(tasks[t].kind)
        /\ tasks'[t] = IdleTask
        /\ error'

\* C40: when the re-fetch of the timelog fails, the attendance data the
\* screen held stays: employeeDetails is what it was, not null.
C40_FailedRefetchKeepsData ==
    [][RefetchFails /\ employeeDetails # None =>
            employeeDetails' = employeeDetails]_vars

\* a check-in was accepted by the service, the re-fetch after it has failed,
\* and the screen shows "Unable to load attendance" over no data
C40_Witness ==
    /\ Len(serverLog) > 0
    /\ employeeDetails = None
    /\ error
    /\ ~isLoading
    /\ toast = "warning"
    /\ frame.card = "error"
    /\ frame.rec = None

=============================================================================
